---- MODULE Spec2Model ----
(***************************************************************************)
(* Session layer of the Brocade ICX MCP server: the SSH engine             *)
(* (src/lib/ssh-client.ts) and the Telnet engine (src/lib/telnet-client.ts)*)
(* with their shared connection lifecycle (connect/retry, keepalive,       *)
(* reconnect, disconnect, health check) and command execution.             *)
(*                                                                         *)
(* The engines run on the JavaScript event loop.  A "thread" below is one  *)
(* asynchronous call chain (a caller's await chain or a timer callback).   *)
(* `microtasks` is the queue of chains whose synchronous code is ready to  *)
(* run: while it is non-empty only its head runs, which models             *)
(* run-to-completion; socket events, timers and new calls are macrotasks   *)
(* and are taken only when the queue is empty.                             *)
(***************************************************************************)
EXTENDS Integers, Sequences, FiniteSets, TLC

\* ---- bounds of the exploration ----
MaxEvents == 3
MaxMore == 2
MaxChunkLen == 3
MaxRetriesCfg == 3
MaxCalls == 2
MaxBatch == 2
MaxSockets == 3
IdleCap == 4

\* ---- ConnectionState enum ----
DISCONNECTED == "disconnected"
CONNECTING == "connecting"
CONNECTED == "connected"
RECONNECTING == "reconnecting"
ERROR == "error"
ConnectionState == {DISCONNECTED, CONNECTING, CONNECTED, RECONNECTING, ERROR}

Engines == {"ssh", "telnet"}

\* asynchronous call chains: two callers, the reconnect timer callback,
\* the keepalive's sendKeepalive() and the keepalive's reconnect()
Callers == {"c1", "c2"}
Threads == Callers \cup {"rt", "ka", "kr"}

\* positions at which a chain is suspended on a macrotask
BlockedPcs == {"idle", "conn_attempt", "conn_setup", "conn_sleep", "conn_wait", "cmd_pending"}
RunPcs == {"exec_entry", "connect_entry", "loop_head", "attempt_ok", "attempt_fail",
           "connect_ret", "connect_throw", "exec_issue", "exec_done", "batch_next",
           "reconnect_entry", "returned"}

\* state of the object this.client / this.socket refers to
ClientStates == {"null", "opening", "ready", "ended", "errored", "closed"}

Outputs == {"", "out", "part"}
Errors == {"ConnErr", "Timeout", "ExecErr", "Err"}
IsError(v) == v \in Errors

VARIABLES
  engine,             \* which engine the session is
  maxRetries,         \* config.maxRetries
  state,              \* this.state
  client,             \* this.client / this.socket
  connectionAttempts, \* this.connectionAttempts
  keepaliveTimer,     \* this.keepaliveTimer is set
  reconnectTimer,     \* this.reconnectTimer: "undefined", "pending" or "dead"
  idle,               \* Date.now() - this.lastActivity, in keepalive intervals
  learnedPrompt,      \* telnet: this.learnedPrompt
  inEnableMode,       \* telnet: this.inEnableMode
  promptPattern,      \* telnet: this.promptPattern
  kaLive,             \* number of live keepalive interval timers
  rtLive,             \* number of pending reconnect timeouts
  sockCreator,        \* chain whose attemptConnection created the current client
  attemptTimer,       \* chain -> its attempt's connectionTimeout is pending
  listener,           \* chain -> its command's data listener is on the socket
  gotOutput,          \* chain -> its pending command has accumulated output
  lost,               \* chain -> what happened to the connection under its pending command
  pc,                 \* chain -> position
  op,                 \* chain -> top-level operation
  made,               \* chain -> attempts made by its current connect() call
  delay,              \* chain -> backoff it is sleeping, in units of retryDelay
  fail,               \* chain -> failure of its last attempt
  val,                \* chain -> outcome of its last executeCommand / connect
  ret,                \* chain -> result of its last finished operation
  batchLen,           \* chain -> length of the batch's input list
  results,            \* chain -> executeMultipleCommands' results array
  outcomes,           \* chain -> what each executeCommand of the batch did
  microtasks,         \* queue of runnable chains
  callsLeft,          \* caller operations still allowed to start
  socksLeft,          \* clients still allowed to be created
  issued,             \* chain -> indices of the batch handed to executeCommand, in order
  written,            \* chain -> times its current command was written to the device
  forced,             \* forced reconnects since this.lastActivity was last set
  erroredUp,          \* the client emitted 'error' while CONNECTED and has not closed yet
  chan,               \* ssh: one executeCommand promise and its exec channel
  tcmd,               \* telnet: one executeCommand promise, its listener and the device
  iac,                \* telnet: one option negotiation, the socket and what was written to it
  dec,                \* telnet: one buffer received from the device and its decoding
  cln,                \* telnet: one raw accumulation and its cleaning
  login,              \* telnet: the data listener of one connection attempt and the device
  setup,              \* telnet: one postConnectSetup() and the device
  retry               \* one executeCommandWithRetry call

sessVars == <<state, client, connectionAttempts, keepaliveTimer, reconnectTimer, idle,
              learnedPrompt, inEnableMode, promptPattern>>
loopVars == <<kaLive, rtLive, sockCreator, attemptTimer, listener, gotOutput>>
thrVars == <<pc, op, made, delay, fail, val, ret, batchLen, results, outcomes>>
cfgVars == <<engine, maxRetries>>
budget == <<callsLeft, socksLeft>>
ghost == <<issued, written, forced, erroredUp>>
NoIac == [phase |-> "none"]

\* no buffer is being decoded
NoDec == [phase |-> "none"]

\* no accumulation is being cleaned
NoCln == [phase |-> "none"]

\* no connection attempt is being looked at
NoLogin == [phase |-> "none"]

\* no post-connect setup is being looked at
NoSetup == [phase |-> "none"]

\* no executeCommandWithRetry call is being looked at
NoRetry == [phase |-> "none"]

pureVars == <<chan, tcmd, iac, dec, cln, login, setup, retry>>
sessionVars == <<cfgVars, sessVars, loopVars, thrVars, microtasks, budget, lost, ghost>>
vars == <<sessionVars, pureVars>>

\* no exec channel is being looked at
NoChan == [phase |-> "none"]

\* no telnet command is being looked at
NoTcmd == [phase |-> "none"]

RECURSIVE Pow2(_)
Pow2(n) == IF n <= 0 THEN 1 ELSE 2 * Pow2(n - 1)

Min(a, b) == IF a < b THEN a ELSE b

\* ghost counters saturate so that the state space stays finite
MadeCap == MaxRetriesCfg + 2

\* socket.destroyed
Destroyed == client \in {"ended", "errored", "closed"}

\* isConnected()
IsConnected ==
  IF engine = "ssh"
  THEN state = CONNECTED /\ client # "null"
  ELSE state = CONNECTED /\ client # "null" /\ ~Destroyed

PendingCommands == {t \in Threads : pc[t] = "cmd_pending"}

\* the session right after construction
SessionInit ==
  /\ engine \in Engines
  /\ maxRetries \in 0..MaxRetriesCfg
  /\ state = DISCONNECTED
  /\ client = "null"
  /\ connectionAttempts = 0
  /\ keepaliveTimer = FALSE
  /\ reconnectTimer = "undefined"
  /\ idle = 0
  /\ learnedPrompt = ""
  /\ inEnableMode = FALSE
  /\ promptPattern = "default"
  /\ kaLive = 0
  /\ rtLive = 0
  /\ sockCreator = "none"
  /\ attemptTimer = [t \in Threads |-> FALSE]
  /\ listener = [t \in Threads |-> FALSE]
  /\ gotOutput = [t \in Threads |-> FALSE]
  /\ lost = [t \in Threads |-> "no"]
  /\ pc = [t \in Threads |-> "idle"]
  /\ op = [t \in Threads |-> "none"]
  /\ made = [t \in Threads |-> 0]
  /\ delay = [t \in Threads |-> 0]
  /\ fail = [t \in Threads |-> "none"]
  /\ val = [t \in Threads |-> "none"]
  /\ ret = [t \in Threads |-> "none"]
  /\ batchLen = [t \in Threads |-> 0]
  /\ results = [t \in Threads |-> <<>>]
  /\ outcomes = [t \in Threads |-> <<>>]
  /\ microtasks = <<>>
  /\ callsLeft = MaxCalls
  /\ socksLeft = MaxSockets
  /\ issued = [t \in Threads |-> <<>>]
  /\ written = [t \in Threads |-> 0]
  /\ forced = 0
  /\ erroredUp = FALSE

Init ==
  /\ SessionInit
  /\ retry = NoRetry
  /\ login = NoLogin /\ setup = NoSetup
  /\ chan = NoChan
  /\ tcmd = NoTcmd
  /\ iac = NoIac
  /\ dec = NoDec /\ cln = NoCln

\* ---- queue helpers ----
Running(t) == microtasks # <<>> /\ Head(microtasks) = t
Quiet == microtasks = <<>>

\* the chain t moves to position p; it leaves the queue when p suspends it
Goto(t, p) ==
  /\ pc' = [pc EXCEPT ![t] = p]
  /\ microtasks' = IF p \in BlockedPcs THEN Tail(microtasks) ELSE microtasks

\* a macrotask settles the promise chain t awaits: t becomes runnable at p
Wake(t, p) ==
  /\ pc' = [pc EXCEPT ![t] = p]
  /\ microtasks' = Append(microtasks, t)

\* ---- timers of the session ----

\* startKeepalive() without its stopKeepalive(): the previous interval leaks
StartKeepaliveNoStop ==
  /\ kaLive' = kaLive + 1
  /\ keepaliveTimer' = TRUE

\* stopKeepalive() followed by setInterval in startKeepalive()
StartKeepalive ==
  /\ kaLive' = (IF keepaliveTimer THEN kaLive - 1 ELSE kaLive) + 1
  /\ keepaliveTimer' = TRUE

\* scheduleReconnect() without its clearTimeout: the previous timeout stays armed
ScheduleReconnectNoClear(st) ==
  /\ rtLive' = rtLive + (IF st = RECONNECTING THEN 0 ELSE 1)
  /\ reconnectTimer' = IF st = RECONNECTING THEN reconnectTimer ELSE "pending"
  /\ state' = RECONNECTING

\* scheduleReconnect(), called when this.state is st
ScheduleReconnect(st) ==
  /\ rtLive' = (IF reconnectTimer = "pending" THEN rtLive - 1 ELSE rtLive)
               + (IF st = RECONNECTING THEN 0 ELSE 1)
  /\ reconnectTimer' = IF st = RECONNECTING
                       THEN (IF reconnectTimer = "pending" THEN "dead" ELSE reconnectTimer)
                       ELSE "pending"
  /\ state' = RECONNECTING

\* disconnect() without the reconnect timer's clearTimeout
DisconnectKeepsReconnect ==
  /\ keepaliveTimer' = FALSE
  /\ kaLive' = IF keepaliveTimer THEN kaLive - 1 ELSE kaLive
  /\ UNCHANGED <<reconnectTimer, rtLive>>
  /\ client' = "null"
  /\ sockCreator' = "none"
  /\ listener' = [t \in Threads |-> FALSE]
  /\ state' = DISCONNECTED
  /\ inEnableMode' = FALSE
  /\ learnedPrompt' = ""
  /\ lost' = [t \in Threads |-> IF pc[t] = "cmd_pending" /\ lost[t] = "no"
                                 THEN "disconnect" ELSE lost[t]]
  /\ UNCHANGED <<connectionAttempts, idle, promptPattern, attemptTimer, gotOutput>>

\* disconnect() whose stopKeepalive() forgets the handle without clearInterval
DisconnectLeaksKeepalive ==
  /\ keepaliveTimer' = FALSE
  /\ kaLive' = kaLive
  /\ reconnectTimer' = "undefined"
  /\ rtLive' = IF reconnectTimer = "pending" THEN rtLive - 1 ELSE rtLive
  /\ client' = "null"
  /\ sockCreator' = "none"
  /\ listener' = [t \in Threads |-> FALSE]
  /\ state' = DISCONNECTED
  /\ inEnableMode' = FALSE
  /\ learnedPrompt' = ""
  /\ lost' = [t \in Threads |-> IF pc[t] = "cmd_pending" /\ lost[t] = "no"
                                 THEN "disconnect" ELSE lost[t]]
  /\ UNCHANGED <<connectionAttempts, idle, promptPattern, attemptTimer, gotOutput>>

\* disconnect(): the synchronous body
Disconnect ==
  /\ keepaliveTimer' = FALSE
  /\ kaLive' = IF keepaliveTimer THEN kaLive - 1 ELSE kaLive
  /\ reconnectTimer' = "undefined"
  /\ rtLive' = IF reconnectTimer = "pending" THEN rtLive - 1 ELSE rtLive
  /\ client' = "null"
  /\ sockCreator' = "none"
  /\ listener' = [t \in Threads |-> FALSE]
  /\ state' = DISCONNECTED
  /\ inEnableMode' = FALSE
  /\ learnedPrompt' = ""
  /\ lost' = [t \in Threads |-> IF pc[t] = "cmd_pending" /\ lost[t] = "no"
                                 THEN "disconnect" ELSE lost[t]]
  /\ UNCHANGED <<connectionAttempts, idle, promptPattern, attemptTimer, gotOutput>>

\* a chain's operation is over: its promise settles with r
Finish(t, r) ==
  /\ pc' = [pc EXCEPT ![t] = "returned"]
  /\ microtasks' = microtasks
  /\ ret' = [ret EXCEPT ![t] = r]
  /\ op' = op
  /\ made' = [made EXCEPT ![t] = 0]
  /\ delay' = [delay EXCEPT ![t] = 0]
  /\ fail' = [fail EXCEPT ![t] = "none"]
  /\ val' = [val EXCEPT ![t] = "none"]


ExecOps == {"exec", "batch", "health", "keepalive"}

\* ---- connect(): the synchronous steps of one call ----

\* connect() without its test for CONNECTED: a connected session starts the
\* retry loop again
ConnectEntryNoGuard(t) ==
  /\ Running(t) /\ pc[t] = "connect_entry"
  /\ \/ /\ state = CONNECTING
        /\ Goto(t, "conn_wait")
        /\ fail' = [fail EXCEPT ![t] = "waiting"]
        /\ UNCHANGED <<state, connectionAttempts, made>>
     \/ /\ state # CONNECTING
        /\ state' = CONNECTING
        /\ connectionAttempts' = 0
        /\ made' = [made EXCEPT ![t] = 0]
        /\ Goto(t, "loop_head")
        /\ UNCHANGED fail
  /\ UNCHANGED <<cfgVars, client, keepaliveTimer, reconnectTimer, idle, learnedPrompt,
                 inEnableMode, promptPattern, loopVars, op, delay, val, ret, batchLen,
                 results, outcomes, budget>>
  /\ UNCHANGED <<lost, ghost, pureVars>>

\* connect(), entry: no-op when CONNECTED, wait when CONNECTING, else start
\* the retry loop
ConnectEntry(t) ==
  /\ Running(t) /\ pc[t] = "connect_entry"
  /\ \/ /\ state = CONNECTED
        /\ Goto(t, "connect_ret")
        /\ UNCHANGED <<state, connectionAttempts, made, fail>>
     \/ /\ state = CONNECTING
        /\ Goto(t, "conn_wait")
        /\ fail' = [fail EXCEPT ![t] = "waiting"]
        /\ UNCHANGED <<state, connectionAttempts, made>>
     \/ /\ state \notin {CONNECTED, CONNECTING}
        /\ state' = CONNECTING
        /\ connectionAttempts' = 0
        /\ made' = [made EXCEPT ![t] = 0]
        /\ Goto(t, "loop_head")
        /\ UNCHANGED fail
  /\ UNCHANGED <<cfgVars, client, keepaliveTimer, reconnectTimer, idle, learnedPrompt,
                 inEnableMode, promptPattern, loopVars, op, delay, val, ret, batchLen,
                 results, outcomes, budget>>
  /\ UNCHANGED <<lost, ghost, pureVars>>

\* attemptConnection(), synchronous part: the old client loses its listeners
\* and is ended, a new one is created and the connection timeout is armed
AttemptConnection(t) ==
  /\ client' = "opening"
  /\ sockCreator' = t
  /\ attemptTimer' = [attemptTimer EXCEPT ![t] = TRUE]
  /\ listener' = [u \in Threads |-> FALSE]
  /\ made' = [made EXCEPT ![t] = Min(made[t] + 1, MadeCap)]

\* while (this.connectionAttempts < this.maxRetries) { await attemptConnection() ...
LoopHead(t) ==
  /\ Running(t) /\ pc[t] = "loop_head"
  /\ IF connectionAttempts < maxRetries
     THEN /\ socksLeft > 0
          /\ socksLeft' = socksLeft - 1
          /\ AttemptConnection(t)
          /\ Goto(t, "conn_attempt")
     ELSE /\ Goto(t, "connect_ret")
          /\ UNCHANGED <<client, sockCreator, attemptTimer, listener, made, socksLeft>>
  /\ UNCHANGED <<cfgVars, state, connectionAttempts, keepaliveTimer, reconnectTimer, idle,
                 learnedPrompt, inEnableMode, promptPattern, kaLive, rtLive, gotOutput,
                 op, delay, fail, val, ret, batchLen, results, outcomes, callsLeft>>
  /\ erroredUp' = IF connectionAttempts < maxRetries THEN FALSE ELSE erroredUp
  /\ UNCHANGED <<lost, issued, written, forced, pureVars>>

\* the attempt resolved: this.startKeepalive(); return
AttemptOk(t) ==
  /\ Running(t) /\ pc[t] = "attempt_ok"
  /\ StartKeepalive
  /\ Goto(t, "connect_ret")
  /\ fail' = [fail EXCEPT ![t] = "none"]
  /\ UNCHANGED <<cfgVars, state, client, connectionAttempts, reconnectTimer, idle,
                 learnedPrompt, inEnableMode, promptPattern, rtLive, sockCreator,
                 attemptTimer, listener, gotOutput, op, made, delay, val, ret,
                 batchLen, results, outcomes, budget>>
  /\ UNCHANGED <<lost, ghost, pureVars>>

\* the backoff in units of retryDelay: Math.pow(2, connectionAttempts - 1)
Backoff(n) == Pow2(n - 1)

\* the attempt rejected: the catch block of the retry loop
AttemptFail(t) ==
  /\ Running(t) /\ pc[t] = "attempt_fail"
  /\ connectionAttempts' = connectionAttempts + 1
  /\ IF connectionAttempts + 1 >= maxRetries
     THEN /\ state' = ERROR
          /\ val' = [val EXCEPT ![t] = "ConnErr"]
          /\ Goto(t, "connect_throw")
          /\ UNCHANGED delay
     ELSE /\ delay' = [delay EXCEPT ![t] = Backoff(connectionAttempts + 1)]
          /\ Goto(t, "conn_sleep")
          /\ UNCHANGED <<state, val>>
  /\ UNCHANGED <<cfgVars, client, keepaliveTimer, reconnectTimer, idle, learnedPrompt,
                 inEnableMode, promptPattern, loopVars, op, made, fail, ret, batchLen,
                 results, outcomes, budget>>
  /\ UNCHANGED <<lost, ghost, pureVars>>

\* connect() returned normally: continue in the caller of connect()
ConnectRet(t) ==
  /\ Running(t) /\ pc[t] = "connect_ret"
  /\ IF op[t] \in ExecOps
     THEN /\ Goto(t, "exec_issue")
          /\ fail' = [fail EXCEPT ![t] = "none"]
          /\ made' = [made EXCEPT ![t] = 0]
          /\ UNCHANGED <<op, delay, val, ret>>
     ELSE Finish(t, "ok")
  /\ UNCHANGED <<cfgVars, sessVars, loopVars, batchLen, results, outcomes, budget>>
  /\ UNCHANGED <<lost, ghost, pureVars>>

\* connect() threw: continue in the caller of connect(); the reconnect
\* timer's callback catches and calls scheduleReconnect(), the keepalive's
\* reconnect() is not awaited by anyone
ConnectThrow(t) ==
  /\ Running(t) /\ pc[t] = "connect_throw"
  /\ IF op[t] \in ExecOps
     THEN /\ Goto(t, "exec_done")
          /\ fail' = [fail EXCEPT ![t] = "none"]
          /\ made' = [made EXCEPT ![t] = 0]
          /\ UNCHANGED <<op, delay, val, ret>>
     ELSE Finish(t, IF op[t] = "reconnect" /\ t \notin Callers THEN "unhandled" ELSE val[t])
  /\ IF op[t] = "rtimer"
     THEN ScheduleReconnect(state)
     ELSE UNCHANGED <<state, reconnectTimer, rtLive>>
  /\ UNCHANGED <<cfgVars, client, connectionAttempts, keepaliveTimer, idle, learnedPrompt,
                 inEnableMode, promptPattern, kaLive, sockCreator, attemptTimer, listener,
                 gotOutput, batchLen, results, outcomes, budget>>
  /\ UNCHANGED <<lost, ghost, pureVars>>

\* reconnect(): this.disconnect(); await this.connect()
ReconnectEntry(t) ==
  /\ Running(t) /\ pc[t] = "reconnect_entry"
  /\ Disconnect
  /\ Goto(t, "connect_entry")
  /\ UNCHANGED <<cfgVars, op, made, delay, fail, val, ret, batchLen, results, outcomes,
                 budget>>
  /\ erroredUp' = FALSE
  /\ UNCHANGED <<issued, written, forced, pureVars>>

\* ---- executeCommand(): the synchronous steps ----

\* if (!this.isConnected()) await this.connect()
ExecEntry(t) ==
  /\ Running(t) /\ pc[t] = "exec_entry"
  /\ Goto(t, IF IsConnected THEN "exec_issue" ELSE "connect_entry")
  /\ UNCHANGED <<cfgVars, sessVars, loopVars, op, made, delay, fail, val, ret, batchLen,
                 results, outcomes, budget>>
  /\ issued' = [issued EXCEPT ![t] = IF op[t] = "batch" THEN Append(@, Len(results[t]) + 1) ELSE @]
  /\ written' = [written EXCEPT ![t] = 0]
  /\ UNCHANGED <<lost, forced, erroredUp, pureVars>>

\* the null check, then the promise executor: arm the command timeout, attach
\* the data listener and write the command (telnet) or open an exec channel
\* (ssh; exec on a client that is not ready may throw or may stay unanswered)
ExecIssue(t) ==
  /\ Running(t) /\ pc[t] = "exec_issue"
  /\ \/ /\ client = "null" \/ (engine = "telnet" /\ Destroyed)
        /\ val' = [val EXCEPT ![t] = "ConnErr"]
        /\ Goto(t, "exec_done")
        /\ UNCHANGED <<listener, gotOutput, written>>
     \/ /\ engine = "ssh" /\ client \notin {"null", "ready"}
        /\ val' = [val EXCEPT ![t] = "Err"]
        /\ Goto(t, "exec_done")
        /\ UNCHANGED <<listener, gotOutput, written>>
     \/ /\ client # "null" /\ ~(engine = "telnet" /\ Destroyed)
        /\ listener' = [listener EXCEPT ![t] = (engine = "telnet")]
        /\ gotOutput' = [gotOutput EXCEPT ![t] = FALSE]
        /\ Goto(t, "cmd_pending")
        /\ written' = [written EXCEPT ![t] = @ + 1]
        /\ UNCHANGED val
  /\ UNCHANGED <<cfgVars, sessVars, kaLive, rtLive, sockCreator, attemptTimer, op, made,
                 delay, fail, ret, batchLen, results, outcomes, budget>>
  /\ UNCHANGED <<lost, issued, forced, erroredUp, pureVars>>

\* executeMultipleCommands without its try/catch: a failed command ends the batch
ExecDoneRethrows(t) ==
  /\ Running(t) /\ pc[t] = "exec_done"
  /\ IF op[t] = "batch" /\ ~IsError(val[t])
     THEN /\ results' = [results EXCEPT ![t] = Append(@, val[t])]
          /\ outcomes' = [outcomes EXCEPT ![t] = Append(@, val[t])]
          /\ val' = [val EXCEPT ![t] = "none"]
          /\ Goto(t, "batch_next")
          /\ UNCHANGED <<op, made, delay, fail, ret>>
     ELSE /\ Finish(t, CASE op[t] = "health" -> (IF IsError(val[t]) THEN "false" ELSE "true")
                         [] op[t] = "keepalive" -> (IF IsError(val[t]) THEN "ka_failed" ELSE "ka_ok")
                         [] OTHER -> val[t])
          /\ UNCHANGED <<results, outcomes>>
  /\ idle' = IF op[t] = "keepalive" /\ ~IsError(val[t]) THEN 0 ELSE idle
  /\ lost' = [lost EXCEPT ![t] = "no"]
  /\ UNCHANGED <<cfgVars, state, client, connectionAttempts, keepaliveTimer, reconnectTimer,
                 learnedPrompt, inEnableMode, promptPattern, loopVars, batchLen, budget>>
  /\ forced' = IF op[t] = "keepalive" /\ ~IsError(val[t]) THEN 0 ELSE forced
  /\ UNCHANGED <<issued, written, erroredUp, pureVars>>

\* executeMultipleCommands whose catch pushes nothing: the index of the failed
\* command is taken again by the next one
ExecDoneDropsFailure(t) ==
  /\ Running(t) /\ pc[t] = "exec_done"
  /\ IF op[t] = "batch"
     THEN /\ results' = [results EXCEPT ![t] = IF IsError(val[t]) /\ Len(@) + 1 < batchLen[t]
                                                THEN @ ELSE Append(@, IF IsError(val[t]) THEN "" ELSE val[t])]
          /\ outcomes' = [outcomes EXCEPT ![t] = IF IsError(val[t]) /\ Len(@) + 1 < batchLen[t]
                                                  THEN @ ELSE Append(@, val[t])]
          /\ val' = [val EXCEPT ![t] = "none"]
          /\ Goto(t, "batch_next")
          /\ UNCHANGED <<op, made, delay, fail, ret>>
     ELSE /\ Finish(t, CASE op[t] = "health" -> (IF IsError(val[t]) THEN "false" ELSE "true")
                         [] op[t] = "keepalive" -> (IF IsError(val[t]) THEN "ka_failed" ELSE "ka_ok")
                         [] OTHER -> val[t])
          /\ UNCHANGED <<results, outcomes>>
  /\ idle' = IF op[t] = "keepalive" /\ ~IsError(val[t]) THEN 0 ELSE idle
  /\ lost' = [lost EXCEPT ![t] = "no"]
  /\ UNCHANGED <<cfgVars, state, client, connectionAttempts, keepaliveTimer, reconnectTimer,
                 learnedPrompt, inEnableMode, promptPattern, loopVars, batchLen, budget>>
  /\ forced' = IF op[t] = "keepalive" /\ ~IsError(val[t]) THEN 0 ELSE forced
  /\ UNCHANGED <<issued, written, erroredUp, pureVars>>

\* executeCommand settled with val[t]: continue in its caller.
\* executeMultipleCommands pushes the result or '' for a failure; healthCheck
\* maps to true/false; sendKeepalive records activity on success
ExecDone(t) ==
  /\ Running(t) /\ pc[t] = "exec_done"
  /\ IF op[t] = "batch"
     THEN /\ results' = [results EXCEPT ![t] = Append(@, IF IsError(val[t]) THEN "" ELSE val[t])]
          /\ outcomes' = [outcomes EXCEPT ![t] = Append(@, val[t])]
          /\ val' = [val EXCEPT ![t] = "none"]
          /\ Goto(t, "batch_next")
          /\ UNCHANGED <<op, made, delay, fail, ret>>
     ELSE /\ Finish(t, CASE op[t] = "health" -> (IF IsError(val[t]) THEN "false" ELSE "true")
                         [] op[t] = "keepalive" -> (IF IsError(val[t]) THEN "ka_failed" ELSE "ka_ok")
                         [] OTHER -> val[t])
          /\ UNCHANGED <<results, outcomes>>
  /\ idle' = IF op[t] = "keepalive" /\ ~IsError(val[t]) THEN 0 ELSE idle
  /\ lost' = [lost EXCEPT ![t] = "no"]
  /\ UNCHANGED <<cfgVars, state, client, connectionAttempts, keepaliveTimer, reconnectTimer,
                 learnedPrompt, inEnableMode, promptPattern, loopVars, batchLen, budget>>
  /\ forced' = IF op[t] = "keepalive" /\ ~IsError(val[t]) THEN 0 ELSE forced
  /\ UNCHANGED <<issued, written, erroredUp, pureVars>>

\* executeMultipleCommands: for (const command of commands) ...; return results
BatchNext(t) ==
  /\ Running(t) /\ pc[t] = "batch_next"
  /\ IF Len(results[t]) < batchLen[t]
     THEN /\ Goto(t, "exec_entry")
          /\ UNCHANGED <<op, made, delay, fail, val, ret>>
     ELSE Finish(t, "array")
  /\ UNCHANGED <<cfgVars, sessVars, loopVars, batchLen, results, outcomes, budget>>
  /\ UNCHANGED <<lost, ghost, pureVars>>

\* ---- calls made by the users of the session ----

\* the callers are interchangeable: the first call of a behaviour is c1's
FirstIsC1(t) == callsLeft = MaxCalls => t = "c1"

StartOp(t, o, p) ==
  /\ Quiet /\ pc[t] = "idle" /\ callsLeft > 0 /\ FirstIsC1(t)
  /\ callsLeft' = callsLeft - 1
  /\ pc' = [pc EXCEPT ![t] = p]
  /\ op' = [op EXCEPT ![t] = o]
  /\ microtasks' = <<t>>
  /\ UNCHANGED <<socksLeft, ret>>

CallConnect(t) ==
  /\ StartOp(t, "connect", "connect_entry")
  /\ UNCHANGED <<cfgVars, sessVars, loopVars, made, delay, fail, val, batchLen, results,
                 outcomes>>
  /\ UNCHANGED <<lost, ghost, pureVars>>

\* executeCommand(command, timeout)
CallExecuteCommand(t) ==
  /\ StartOp(t, "exec", "exec_entry")
  /\ UNCHANGED <<cfgVars, sessVars, loopVars, made, delay, fail, val, batchLen, results,
                 outcomes>>
  /\ UNCHANGED <<lost, ghost, pureVars>>

CallExecuteMultipleCommands(t) ==
  /\ StartOp(t, "batch", "batch_next")
  /\ \E n \in 0..MaxBatch : batchLen' = [batchLen EXCEPT ![t] = n]
  /\ results' = [results EXCEPT ![t] = <<>>]
  /\ outcomes' = [outcomes EXCEPT ![t] = <<>>]
  /\ UNCHANGED <<cfgVars, sessVars, loopVars, made, delay, fail, val>>
  /\ issued' = [issued EXCEPT ![t] = <<>>]
  /\ UNCHANGED <<lost, written, forced, erroredUp, pureVars>>

\* healthCheck() without its isConnected() test
CallHealthCheckNoGuard(t) ==
  /\ Quiet /\ pc[t] = "idle" /\ callsLeft > 0 /\ FirstIsC1(t)
  /\ callsLeft' = callsLeft - 1
  /\ op' = [op EXCEPT ![t] = "health"]
  /\ microtasks' = <<t>>
  /\ pc' = [pc EXCEPT ![t] = "exec_entry"]
  /\ UNCHANGED ret
  /\ UNCHANGED <<cfgVars, sessVars, loopVars, made, delay, fail, val, batchLen, results,
                 outcomes, socksLeft>>
  /\ UNCHANGED <<lost, ghost, pureVars>>

\* healthCheck(): false at once when not connected, else executeCommand
CallHealthCheck(t) ==
  /\ Quiet /\ pc[t] = "idle" /\ callsLeft > 0 /\ FirstIsC1(t)
  /\ callsLeft' = callsLeft - 1
  /\ op' = [op EXCEPT ![t] = "health"]
  /\ microtasks' = <<t>>
  /\ IF IsConnected
     THEN /\ pc' = [pc EXCEPT ![t] = "exec_entry"]
          /\ UNCHANGED ret
     ELSE /\ pc' = [pc EXCEPT ![t] = "returned"]
          /\ ret' = [ret EXCEPT ![t] = "false"]
  /\ UNCHANGED <<cfgVars, sessVars, loopVars, made, delay, fail, val, batchLen, results,
                 outcomes, socksLeft>>
  /\ UNCHANGED <<lost, ghost, pureVars>>

CallDisconnect(t) ==
  /\ Quiet /\ pc[t] = "idle" /\ callsLeft > 0 /\ FirstIsC1(t)
  /\ callsLeft' = callsLeft - 1
  /\ Disconnect
  /\ pc' = [pc EXCEPT ![t] = "returned"]
  /\ op' = [op EXCEPT ![t] = "disconnect"]
  /\ ret' = [ret EXCEPT ![t] = "void"]
  /\ microtasks' = <<t>>
  /\ UNCHANGED <<cfgVars, made, delay, fail, val, batchLen, results, outcomes, socksLeft>>
  /\ erroredUp' = FALSE
  /\ UNCHANGED <<issued, written, forced, pureVars>>

\* reconnect() called by a user of the session
CallReconnect(t) ==
  /\ StartOp(t, "reconnect", "reconnect_entry")
  /\ UNCHANGED <<cfgVars, sessVars, loopVars, made, delay, fail, val, batchLen, results,
                 outcomes>>
  /\ UNCHANGED <<lost, ghost, pureVars>>

\* the operation's result has been handed to whoever awaited it
Return(t) ==
  /\ Running(t) /\ pc[t] = "returned"
  /\ pc' = [pc EXCEPT ![t] = "idle"]
  /\ microtasks' = Tail(microtasks)
  /\ ret' = [ret EXCEPT ![t] = "none"]
  /\ op' = [op EXCEPT ![t] = "none"]
  /\ batchLen' = [batchLen EXCEPT ![t] = 0]
  /\ results' = [results EXCEPT ![t] = <<>>]
  /\ outcomes' = [outcomes EXCEPT ![t] = <<>>]
  /\ UNCHANGED <<cfgVars, sessVars, loopVars, made, delay, fail, val, budget>>
  /\ issued' = [issued EXCEPT ![t] = <<>>]
  /\ written' = [written EXCEPT ![t] = 0]
  /\ UNCHANGED <<lost, forced, erroredUp, pureVars>>


\* ---- events of the transport (handlers registered in attemptConnection) ----

\* the chain awaiting the promise of the attempt that created the current client
Awaiting(t) == sockCreator = t /\ pc[t] \in {"conn_attempt", "conn_setup"}

\* the ready handler / prompt branch without this.lastActivity = Date.now()
SockReadyKeepsActivity ==
  /\ Quiet /\ client = "opening" /\ sockCreator # "none"
  /\ pc[sockCreator] = "conn_attempt"
  /\ client' = "ready"
  /\ attemptTimer' = [attemptTimer EXCEPT ![sockCreator] = FALSE]
  /\ state' = CONNECTED
  /\ connectionAttempts' = 0
  /\ idle' = idle
  /\ IF engine = "ssh"
     THEN /\ Wake(sockCreator, "attempt_ok")
          /\ UNCHANGED <<learnedPrompt, inEnableMode, promptPattern>>
     ELSE /\ pc' = [pc EXCEPT ![sockCreator] = "conn_setup"]
          /\ learnedPrompt' = "sw"
          /\ promptPattern' = "learned"
          /\ inEnableMode' \in BOOLEAN
          /\ UNCHANGED microtasks
  /\ UNCHANGED <<cfgVars, keepaliveTimer, reconnectTimer, kaLive, rtLive, sockCreator,
                 listener, gotOutput, op, made, delay, fail, val, ret, batchLen, results,
                 outcomes, budget>>
  /\ forced' = forced
  /\ UNCHANGED <<lost, issued, written, erroredUp, pureVars>>

\* ssh 'ready' / telnet CLI prompt detected: clearTimeout, CONNECTED,
\* connectionAttempts = 0, lastActivity = now.  ssh resolves the attempt at
\* once; telnet learns the prompt and resolves after postConnectSetup()
SockReady ==
  /\ Quiet /\ client = "opening" /\ sockCreator # "none"
  /\ pc[sockCreator] = "conn_attempt"
  /\ client' = "ready"
  /\ attemptTimer' = [attemptTimer EXCEPT ![sockCreator] = FALSE]
  /\ state' = CONNECTED
  /\ connectionAttempts' = 0
  /\ idle' = 0
  /\ IF engine = "ssh"
     THEN /\ Wake(sockCreator, "attempt_ok")
          /\ UNCHANGED <<learnedPrompt, inEnableMode, promptPattern>>
     ELSE /\ pc' = [pc EXCEPT ![sockCreator] = "conn_setup"]
          /\ learnedPrompt' = "sw"
          /\ promptPattern' = "learned"
          /\ inEnableMode' \in BOOLEAN
          /\ UNCHANGED microtasks
  /\ UNCHANGED <<cfgVars, keepaliveTimer, reconnectTimer, kaLive, rtLive, sockCreator,
                 listener, gotOutput, op, made, delay, fail, val, ret, batchLen, results,
                 outcomes, budget>>
  /\ forced' = 0
  /\ UNCHANGED <<lost, issued, written, erroredUp, pureVars>>

\* telnet postConnectSetup() finished (enable handshake, terminal length 0;
\* every failure in it is swallowed): the attempt resolves
SetupDone(t) ==
  /\ Quiet /\ pc[t] = "conn_setup"
  /\ Wake(t, "attempt_ok")
  /\ inEnableMode' \in (IF sockCreator = t /\ client = "ready"
                        THEN {inEnableMode, TRUE} ELSE {inEnableMode})
  /\ UNCHANGED <<cfgVars, state, client, connectionAttempts, keepaliveTimer, reconnectTimer,
                 idle, learnedPrompt, promptPattern, loopVars, op, made, delay, fail, val,
                 ret, batchLen, results, outcomes, budget>>
  /\ UNCHANGED <<lost, ghost, pureVars>>

\* 'error': clearTimeout, state = ERROR, reject the attempt
SockError ==
  /\ Quiet /\ client \in {"opening", "ready"}
  /\ client' = "errored"
  /\ state' = ERROR
  /\ attemptTimer' = [u \in Threads |-> IF u = sockCreator THEN FALSE ELSE attemptTimer[u]]
  /\ IF sockCreator # "none" /\ Awaiting(sockCreator)
     THEN /\ Wake(sockCreator, "attempt_fail")
          /\ fail' = [fail EXCEPT ![sockCreator] = "error"]
     ELSE UNCHANGED <<pc, microtasks, fail>>
  /\ UNCHANGED <<cfgVars, connectionAttempts, keepaliveTimer, reconnectTimer, idle,
                 learnedPrompt, inEnableMode, promptPattern, kaLive, rtLive, sockCreator,
                 listener, gotOutput, op, made, delay, val, ret, batchLen, results,
                 outcomes, budget>>
  /\ erroredUp' = (state = CONNECTED)
  /\ UNCHANGED <<lost, issued, written, forced, pureVars>>

\* 'close': clearTimeout, state = DISCONNECTED, and scheduleReconnect() when
\* the state was CONNECTED.  A TCP socket may close during the login without
\* any error event; an ssh client that fails its handshake emits 'error' first
SockClose ==
  /\ Quiet
  /\ client \in {"ready", "ended", "errored"} \/ (engine = "telnet" /\ client = "opening")
  /\ client' = "closed"
  /\ attemptTimer' = [u \in Threads |-> IF u = sockCreator THEN FALSE ELSE attemptTimer[u]]
  /\ IF state = CONNECTED
     THEN ScheduleReconnect(DISCONNECTED)
     ELSE state' = DISCONNECTED /\ UNCHANGED <<reconnectTimer, rtLive>>
  /\ lost' = [t \in Threads |-> IF pc[t] = "cmd_pending" /\ lost[t] = "no" /\ state = CONNECTED
                                 THEN "closed" ELSE lost[t]]
  /\ UNCHANGED <<cfgVars, connectionAttempts, keepaliveTimer, idle, learnedPrompt,
                 inEnableMode, promptPattern, kaLive, sockCreator, listener, gotOutput,
                 thrVars, microtasks, budget>>
  /\ erroredUp' = FALSE
  /\ UNCHANGED <<issued, written, forced, pureVars>>

\* the connection timeout of t's attempt fires: it ends whatever client is
\* current and rejects t's attempt
AttemptTimeout(t) ==
  /\ Quiet /\ attemptTimer[t]
  /\ attemptTimer' = [attemptTimer EXCEPT ![t] = FALSE]
  /\ client' = IF client \in {"opening", "ready"} THEN "ended" ELSE client
  /\ IF pc[t] = "conn_attempt"
     THEN /\ Wake(t, "attempt_fail")
          /\ fail' = [fail EXCEPT ![t] = "timeout"]
     ELSE UNCHANGED <<pc, microtasks, fail>>
  /\ UNCHANGED <<cfgVars, state, connectionAttempts, keepaliveTimer, reconnectTimer, idle,
                 learnedPrompt, inEnableMode, promptPattern, kaLive, rtLive, sockCreator,
                 listener, gotOutput, op, made, delay, val, ret, batchLen, results,
                 outcomes, budget>>
  /\ UNCHANGED <<lost, ghost, pureVars>>

\* ---- timers of a connect() call ----

\* the backoff sleep ends
SleepDone(t) ==
  /\ Quiet /\ pc[t] = "conn_sleep"
  /\ Wake(t, "loop_head")
  /\ delay' = [delay EXCEPT ![t] = 0]
  /\ UNCHANGED <<cfgVars, sessVars, loopVars, op, made, fail, val, ret, batchLen, results,
                 outcomes, budget>>
  /\ UNCHANGED <<lost, ghost, pureVars>>

\* waitForConnection(): one poll that ends the wait
WaitPoll(t) ==
  /\ Quiet /\ pc[t] = "conn_wait"
  /\ \/ /\ state = CONNECTED
        /\ Wake(t, "connect_ret")
        /\ UNCHANGED val
     \/ /\ state \in {ERROR, DISCONNECTED}
        /\ Wake(t, "connect_throw")
        /\ val' = [val EXCEPT ![t] = "ConnErr"]
  /\ UNCHANGED <<cfgVars, sessVars, loopVars, op, made, delay, fail, ret, batchLen, results,
                 outcomes, budget>>
  /\ UNCHANGED <<lost, ghost, pureVars>>

\* waitForConnection(): waited >= maxWait
WaitTimeout(t) ==
  /\ Quiet /\ pc[t] = "conn_wait"
  /\ Wake(t, "connect_throw")
  /\ val' = [val EXCEPT ![t] = "Timeout"]
  /\ UNCHANGED <<cfgVars, sessVars, loopVars, op, made, delay, fail, ret, batchLen, results,
                 outcomes, budget>>
  /\ UNCHANGED <<lost, ghost, pureVars>>

\* ---- settling a pending command ----

\* the command timeout fires: ssh rejects with TimeoutError; telnet resolves
\* with what was accumulated, or rejects when nothing was
CmdTimeout(t) ==
  /\ Quiet /\ pc[t] = "cmd_pending"
  /\ val' = [val EXCEPT ![t] = IF engine = "telnet" /\ gotOutput[t] THEN "part" ELSE "Timeout"]
  /\ listener' = [listener EXCEPT ![t] = FALSE]
  /\ Wake(t, "exec_done")
  /\ UNCHANGED <<cfgVars, sessVars, kaLive, rtLive, sockCreator, attemptTimer, gotOutput,
                 op, made, delay, fail, ret, batchLen, results, outcomes, budget>>
  /\ UNCHANGED <<lost, ghost, pureVars>>

\* telnet: a data chunk reaches every command listener on the socket; the
\* commands in done see their prompt on the last line and resolve
TelnetData(done, v) ==
  /\ Quiet /\ engine = "telnet" /\ client \in {"opening", "ready"}
  /\ \E t \in Threads : listener[t]
  /\ done \subseteq {t \in Threads : listener[t]}
  /\ gotOutput' = [t \in Threads |-> gotOutput[t] \/ listener[t]]
  /\ listener' = [t \in Threads |-> listener[t] /\ t \notin done]
  /\ val' = [t \in Threads |-> IF t \in done THEN v ELSE val[t]]
  /\ pc' = [t \in Threads |-> IF t \in done THEN "exec_done" ELSE pc[t]]
  /\ \E q \in {sq \in [1..Cardinality(done) -> done] :
                 \A i, j \in 1..Cardinality(done) : i # j => sq[i] # sq[j]} :
        microtasks' = q
  /\ idle' = IF done # {} THEN 0 ELSE idle
  /\ UNCHANGED <<cfgVars, state, client, connectionAttempts, keepaliveTimer, reconnectTimer,
                 learnedPrompt, inEnableMode, promptPattern, kaLive, rtLive, sockCreator,
                 attemptTimer, op, made, delay, fail, ret, batchLen, results, outcomes,
                 budget>>
  /\ forced' = IF done # {} THEN 0 ELSE forced
  /\ UNCHANGED <<lost, issued, written, erroredUp, pureVars>>

\* ssh: the exec channel closes with an exit code
SshStreamClose(t, code, v) ==
  /\ Quiet /\ engine = "ssh" /\ pc[t] = "cmd_pending"
  /\ val' = [val EXCEPT ![t] = IF code # 0 THEN "ExecErr" ELSE v]
  /\ idle' = 0
  /\ Wake(t, "exec_done")
  /\ UNCHANGED <<cfgVars, state, client, connectionAttempts, keepaliveTimer, reconnectTimer,
                 learnedPrompt, inEnableMode, promptPattern, loopVars, op, made, delay, fail,
                 ret, batchLen, results, outcomes, budget>>
  /\ forced' = 0
  /\ UNCHANGED <<lost, issued, written, erroredUp, pureVars>>

\* ssh: client.exec calls back with an error
SshExecError(t) ==
  /\ Quiet /\ engine = "ssh" /\ pc[t] = "cmd_pending"
  /\ val' = [val EXCEPT ![t] = "ExecErr"]
  /\ Wake(t, "exec_done")
  /\ UNCHANGED <<cfgVars, sessVars, loopVars, op, made, delay, fail, ret, batchLen, results,
                 outcomes, budget>>
  /\ UNCHANGED <<lost, ghost, pureVars>>

\* ---- timers of the session firing ----

\* the reconnect timeout fires: try { await this.connect() } catch { scheduleReconnect() }
ReconnectTimerFire ==
  /\ Quiet /\ rtLive > 0 /\ pc["rt"] = "idle"
  /\ rtLive' = rtLive - 1
  /\ \/ /\ reconnectTimer = "pending"
        /\ reconnectTimer' = "dead"
     \/ /\ rtLive > (IF reconnectTimer = "pending" THEN 1 ELSE 0)
        /\ UNCHANGED reconnectTimer
  /\ pc' = [pc EXCEPT !["rt"] = "connect_entry"]
  /\ op' = [op EXCEPT !["rt"] = "rtimer"]
  /\ microtasks' = <<"rt">>
  /\ UNCHANGED <<cfgVars, state, client, connectionAttempts, keepaliveTimer, idle,
                 learnedPrompt, inEnableMode, promptPattern, kaLive, sockCreator,
                 attemptTimer, listener, gotOutput, made, delay, fail, val, ret, batchLen,
                 results, outcomes, budget>>
  /\ UNCHANGED <<lost, ghost, pureVars>>

\* the keepalive tick without the idle test of its first if: sendKeepalive()
\* on every tick of a connected session
KeepaliveTickAlways ==
  /\ Quiet /\ kaLive > 0
  /\ LET send == IsConnected
         stale == idle > 3 /\ IsConnected
     IN /\ send => pc["ka"] = "idle"
        /\ stale => pc["kr"] = "idle"
        /\ pc' = [t \in Threads |->
                    IF t = "ka" /\ send THEN "exec_entry"
                    ELSE IF t = "kr" /\ stale THEN "reconnect_entry"
                    ELSE pc[t]]
        /\ op' = [t \in Threads |->
                    IF t = "ka" /\ send THEN "keepalive"
                    ELSE IF t = "kr" /\ stale THEN "reconnect"
                    ELSE op[t]]
        /\ microtasks' = (IF send THEN <<"ka">> ELSE <<>>) \o (IF stale THEN <<"kr">> ELSE <<>>)
  /\ UNCHANGED <<cfgVars, sessVars, loopVars, made, delay, fail, val, ret, batchLen,
                 results, outcomes, budget>>
  /\ forced' = IF idle > 3 /\ IsConnected THEN forced + 1 ELSE forced
  /\ UNCHANGED <<lost, issued, written, erroredUp, pureVars>>

\* one tick of the keepalive interval: sendKeepalive() when idle for more
\* than one interval, reconnect() when idle for more than three
KeepaliveTick ==
  /\ Quiet /\ kaLive > 0
  /\ LET send == idle > 1 /\ IsConnected
         stale == idle > 3 /\ IsConnected
     IN /\ send => pc["ka"] = "idle"
        /\ stale => pc["kr"] = "idle"
        /\ pc' = [t \in Threads |->
                    IF t = "ka" /\ send THEN "exec_entry"
                    ELSE IF t = "kr" /\ stale THEN "reconnect_entry"
                    ELSE pc[t]]
        /\ op' = [t \in Threads |->
                    IF t = "ka" /\ send THEN "keepalive"
                    ELSE IF t = "kr" /\ stale THEN "reconnect"
                    ELSE op[t]]
        /\ microtasks' = (IF send THEN <<"ka">> ELSE <<>>) \o (IF stale THEN <<"kr">> ELSE <<>>)
  /\ UNCHANGED <<cfgVars, sessVars, loopVars, made, delay, fail, val, ret, batchLen,
                 results, outcomes, budget>>
  /\ forced' = IF idle > 3 /\ IsConnected THEN forced + 1 ELSE forced
  /\ UNCHANGED <<lost, issued, written, erroredUp, pureVars>>

\* time passes: one more keepalive interval without activity (the idle time
\* is read only by the keepalive tick of a connected session)
Tick ==
  /\ Quiet /\ idle < IdleCap /\ state = CONNECTED /\ kaLive > 0
  /\ idle' = idle + 1
  /\ UNCHANGED <<cfgVars, state, client, connectionAttempts, keepaliveTimer, reconnectTimer,
                 learnedPrompt, inEnableMode, promptPattern, loopVars, thrVars, microtasks,
                 budget>>
  /\ UNCHANGED <<lost, ghost, pureVars>>

\* the synchronous continuations of connect() and executeCommand()
Step(t) ==
  \/ ConnectEntry(t)
  \/ LoopHead(t)
  \/ AttemptOk(t)
  \/ AttemptFail(t)
  \/ ConnectRet(t)
  \/ ConnectThrow(t)
  \/ ExecEntry(t)
  \/ ExecIssue(t)
  \/ ExecDone(t)
  \/ Return(t)

\* what the transport, the device and the timers of running calls do
Environment ==
  \/ SockReady
  \/ SockError
  \/ SockClose
  \/ \E t \in Threads : SetupDone(t)
  \/ \E t \in Threads : AttemptTimeout(t)
  \/ \E t \in Threads : SleepDone(t)
  \/ \E t \in Threads : WaitPoll(t)
  \/ \E t \in Threads : WaitTimeout(t)
  \/ \E t \in Threads : CmdTimeout(t)
  \/ \E d \in SUBSET Threads, v \in {"", "out"} : TelnetData(d, v)
  \/ \E t \in Threads, code \in {0, 1}, v \in {"", "out"} : SshStreamClose(t, code, v)
  \/ \E t \in Threads : SshExecError(t)
  \/ ReconnectTimerFire

\* Two users of one session calling connect, executeCommand and disconnect
Next ==
  \/ \E t \in Threads : Step(t)
  \/ Environment
  \/ \E t \in Callers : CallConnect(t)
  \/ \E t \in Callers : CallExecuteCommand(t)
  \/ \E t \in Callers : CallDisconnect(t)

Spec == Init /\ [][Next]_vars

\* One user running batches
NextBatch ==
  \/ \E t \in Threads : Step(t)
  \/ \E t \in Threads : BatchNext(t)
  \/ Environment
  \/ CallExecuteMultipleCommands("c1")

SpecBatch == Init /\ [][NextBatch]_vars

\* Two users of one session calling connect, healthCheck and disconnect
NextHealth ==
  \/ \E t \in Threads : Step(t)
  \/ Environment
  \/ \E t \in Callers : CallConnect(t)
  \/ \E t \in Callers : CallHealthCheck(t)
  \/ \E t \in Callers : CallDisconnect(t)

SpecHealth == Init /\ [][NextHealth]_vars

\* One user running commands on a session whose keepalive interval ticks
NextKeepalive ==
  \/ \E t \in Threads : Step(t)
  \/ \E t \in Threads : ReconnectEntry(t)
  \/ Environment
  \/ KeepaliveTick
  \/ Tick
  \/ CallExecuteCommand("c1")

SpecKeepalive == Init /\ [][NextKeepalive]_vars

\* Two users of one session calling connect, reconnect and disconnect while
\* the transport opens, fails and closes connections and the timers fire
NextTimers ==
  \/ \E t \in Threads : ConnectEntry(t)
  \/ \E t \in Threads : LoopHead(t)
  \/ \E t \in Threads : AttemptOk(t)
  \/ \E t \in Threads : AttemptFail(t)
  \/ \E t \in Threads : ConnectRet(t)
  \/ \E t \in Threads : ConnectThrow(t)
  \/ \E t \in Threads : ReconnectEntry(t)
  \/ \E t \in Threads : Return(t)
  \/ SockReady
  \/ SockError
  \/ SockClose
  \/ \E t \in Threads : SetupDone(t)
  \/ \E t \in Threads : AttemptTimeout(t)
  \/ \E t \in Threads : SleepDone(t)
  \/ \E t \in Threads : WaitPoll(t)
  \/ \E t \in Threads : WaitTimeout(t)
  \/ ReconnectTimerFire
  \/ \E t \in Callers : CallConnect(t)
  \/ \E t \in Callers : CallReconnect(t)
  \/ \E t \in Callers : CallDisconnect(t)

SpecTimers == Init /\ [][NextTimers]_vars

\* ---- ssh executeCommand: one promise and its exec channel ----

Commands == {"show version", "show vlan"}
Timeouts == {1000, 30000}
Chunks == {"a", "b"}
\* the code handed to the close handler: null or a number
ExitCodes == {"null", "0", "1", "2"}

\* the stdout chunks of a log of channel events, in arrival order
RECURSIVE StdoutOf(_)
StdoutOf(log) ==
  IF log = <<>> THEN <<>>
  ELSE (IF Head(log)[1] = "stdout" THEN <<Head(log)[2]>> ELSE <<>>) \o StdoutOf(Tail(log))

\* the stderr chunks of a log of channel events, in arrival order
RECURSIVE StderrOf(_)
StderrOf(log) ==
  IF log = <<>> THEN <<>>
  ELSE (IF Head(log)[1] = "stderr" THEN <<Head(log)[2]>> ELSE <<>>) \o StderrOf(Tail(log))

\* resolve / reject settle a promise once; later calls are ignored
Settle(p, outcome) == IF p.kind = "pending" THEN outcome ELSE p

\* executeCommand(command, timeout) on a connected client: the executor armed
\* commandTimeout and called client.exec
InitSshExec ==
  /\ SessionInit /\ engine = "ssh" /\ maxRetries = MaxRetriesCfg
  /\ retry = NoRetry
  /\ login = NoLogin /\ setup = NoSetup
  /\ \E c \in Commands, ms \in Timeouts :
       chan = [phase |-> "requested", command |-> c, timeout |-> ms, timer |-> TRUE,
               output |-> <<>>, errorOutput |-> <<>>, log |-> <<>>, code |-> "none",
               timedOut |-> FALSE, settled |-> [kind |-> "pending"]]
  /\ tcmd = NoTcmd
  /\ iac = NoIac
  /\ dec = NoDec /\ cln = NoCln

\* what the exec channel machine leaves alone
chanFrame == <<sessionVars, tcmd, iac, dec, cln, login, setup, retry>>

\* client.exec calls back with err: clearTimeout, reject CommandExecutionError
ChExecError ==
  /\ chan.phase = "requested"
  /\ chan' = [chan EXCEPT !.phase = "failed", !.timer = FALSE,
                          !.settled = Settle(@, [kind |-> "CommandExecutionError",
                                                 command |-> chan.command,
                                                 exitCode |-> "undefined",
                                                 details |-> "err"])]
  /\ UNCHANGED chanFrame

\* client.exec calls back with the stream: the handlers are attached
ChOpen ==
  /\ chan.phase = "requested"
  /\ chan' = [chan EXCEPT !.phase = "open"]
  /\ UNCHANGED chanFrame

\* stream 'data': output += data.toString()
ChData(c) ==
  /\ chan.phase = "open" /\ Len(chan.log) < MaxEvents
  /\ chan' = [chan EXCEPT !.output = Append(@, c), !.log = Append(@, <<"stdout", c>>)]
  /\ UNCHANGED chanFrame

\* stream.stderr 'data' with the chunk appended to output instead
ChStderrIntoOutput(c) ==
  /\ chan.phase = "open" /\ Len(chan.log) < MaxEvents
  /\ chan' = [chan EXCEPT !.output = Append(@, c), !.log = Append(@, <<"stderr", c>>)]
  /\ UNCHANGED chanFrame

\* stream.stderr 'data': errorOutput += data.toString()
ChStderr(c) ==
  /\ chan.phase = "open" /\ Len(chan.log) < MaxEvents
  /\ chan' = [chan EXCEPT !.errorOutput = Append(@, c), !.log = Append(@, <<"stderr", c>>)]
  /\ UNCHANGED chanFrame

\* stream 'close' (code): clearTimeout, lastActivity = now, then reject on a
\* code that is neither null nor 0, else resolve(output)
ChClose(code) ==
  /\ chan.phase = "open"
  /\ chan' = [chan EXCEPT !.phase = "closed", !.timer = FALSE, !.code = code,
                          !.settled = Settle(@, IF code # "null" /\ code # "0"
                                                THEN [kind |-> "CommandExecutionError",
                                                      command |-> chan.command,
                                                      exitCode |-> code,
                                                      details |-> [stderr |-> chan.errorOutput]]
                                                ELSE [kind |-> "resolved",
                                                      value |-> chan.output])]
  /\ UNCHANGED chanFrame

\* a commandTimeout that resolves with the output when there is some
ChTimeoutLenient ==
  /\ chan.timer
  /\ chan' = [chan EXCEPT !.timer = FALSE, !.timedOut = TRUE,
                          !.settled = Settle(@, IF chan.output # <<>>
                                                THEN [kind |-> "resolved", value |-> chan.output]
                                                ELSE [kind |-> "TimeoutError",
                                                      message |-> <<"Command timeout: ", chan.command>>,
                                                      timeout |-> chan.timeout])]
  /\ UNCHANGED chanFrame

\* commandTimeout fires: reject(new TimeoutError(`Command timeout: ${command}`, effectiveTimeout))
ChTimeout ==
  /\ chan.timer
  /\ chan' = [chan EXCEPT !.timer = FALSE, !.timedOut = TRUE,
                          !.settled = Settle(@, [kind |-> "TimeoutError",
                                                 message |-> <<"Command timeout: ", chan.command>>,
                                                 timeout |-> chan.timeout])]
  /\ UNCHANGED chanFrame

NextSshExec ==
  \/ ChExecError
  \/ ChOpen
  \/ \E c \in Chunks : ChData(c)
  \/ \E c \in Chunks : ChStderr(c)
  \/ \E code \in ExitCodes : ChClose(code)
  \/ ChTimeout

SpecSshExec == InitSshExec /\ [][NextSshExec]_vars

\* ---- telnet executeCommand: the text functions on token sequences ----
\* A text is a sequence of tokens: the echoed command, a line of output, the
\* two halves "--Mo" "re--" of a pagination marker, the prompt, and the single
\* characters "LF", "CR", "SP", "TAB", "BS" (backspace), "BEL", and "ANSI" for
\* one whole escape sequence.

PromptToken == "sw#"
OutputLines == <<"line1", "line2", "line3">>

\* what \s matches
Whitespace == {"SP", "TAB", "CR", "LF"}

\* occurrences of --More-- in a text
RECURSIVE CountMarkers(_)
CountMarkers(text) ==
  IF Len(text) < 2 THEN 0
  ELSE IF text[1] = "--Mo" /\ text[2] = "re--"
       THEN 1 + CountMarkers(SubSeq(text, 3, Len(text)))
       ELSE CountMarkers(Tail(text))

\* /--More--/i.test(text)
HasMarker(text) == CountMarkers(text) > 0

RECURSIVE DropLeadingWs(_)
DropLeadingWs(text) ==
  IF text # <<>> /\ Head(text) \in Whitespace THEN DropLeadingWs(Tail(text)) ELSE text

RECURSIVE DropTrailingWs(_)
DropTrailingWs(text) ==
  IF text # <<>> /\ text[Len(text)] \in Whitespace
  THEN DropTrailingWs(SubSeq(text, 1, Len(text) - 1)) ELSE text

\* String.prototype.trim()
Trim(text) == DropTrailingWs(DropLeadingWs(text))

\* stripAnsi(text)
StripAnsi(text) == SelectSeq(text, LAMBDA tok : tok # "ANSI")

\* text.replace(/--More--\s*/gi, '')
RECURSIVE RemoveMarkers(_)
RemoveMarkers(text) ==
  IF text = <<>> THEN <<>>
  ELSE IF Len(text) >= 2 /\ text[1] = "--Mo" /\ text[2] = "re--"
       THEN RemoveMarkers(DropLeadingWs(SubSeq(text, 3, Len(text))))
       ELSE <<Head(text)>> \o RemoveMarkers(Tail(text))

RECURSIVE DropLeadingBs(_)
DropLeadingBs(text) ==
  IF text # <<>> /\ Head(text) = "BS" THEN DropLeadingBs(Tail(text)) ELSE text

\* text.replace(/[\b]+\s*[\b]*/g, '')
RECURSIVE RemoveBackspaces(_)
RemoveBackspaces(text) ==
  IF text = <<>> THEN <<>>
  ELSE IF Head(text) = "BS"
       THEN RemoveBackspaces(DropLeadingBs(DropLeadingWs(DropLeadingBs(text))))
       ELSE <<Head(text)>> \o RemoveBackspaces(Tail(text))

\* text.replace(/[\x00-\x08\x0b\x0c\x0e-\x1f]/g, ''): neither \t, \n nor \r
RemoveControl(text) == SelectSeq(text, LAMBDA tok : tok \notin {"BS", "BEL"})

\* text.split('\n')
RECURSIVE SplitLines(_)
SplitLines(text) ==
  IF \A i \in 1..Len(text) : text[i] # "LF" THEN <<text>>
  ELSE LET i == CHOOSE j \in 1..Len(text) :
                  text[j] = "LF" /\ \A h \in 1..(j - 1) : text[h] # "LF"
       IN <<SubSeq(text, 1, i - 1)>> \o SplitLines(SubSeq(text, i + 1, Len(text)))

\* lines.join('\n')
RECURSIVE JoinLines(_)
JoinLines(lines) ==
  IF lines = <<>> THEN <<>>
  ELSE IF Len(lines) = 1 THEN lines[1]
       ELSE lines[1] \o <<"LF">> \o JoinLines(Tail(lines))

\* this.promptPattern.test(line): the line ends with the prompt and whitespace
MatchesPrompt(line) ==
  LET l == DropTrailingWs(line) IN l # <<>> /\ l[Len(l)] = PromptToken

\* the last line of the accumulated output, as the completion check takes it
LastLine(text) == LET lines == SplitLines(StripAnsi(text)) IN Trim(lines[Len(lines)])

\* the loop of cleanOutput over the lines, from line i on
RECURSIVE CleanLoop(_, _, _, _)
CleanLoop(lines, i, foundCommand, command) ==
  IF i > Len(lines) THEN <<>>
  ELSE IF ~foundCommand /\ Trim(lines[i]) = <<command>>
       THEN CleanLoop(lines, i + 1, TRUE, command)
       ELSE IF foundCommand /\ MatchesPrompt(Trim(lines[i])) /\ lines[i] = lines[Len(lines)]
            THEN CleanLoop(lines, i + 1, foundCommand, command)
            ELSE (IF foundCommand THEN <<lines[i]>> ELSE <<>>)
                   \o CleanLoop(lines, i + 1, foundCommand, command)

\* cleanOutput(raw, command)
CleanOutput(raw, command) ==
  LET lines == SplitLines(RemoveControl(RemoveBackspaces(RemoveMarkers(StripAnsi(raw)))))
  IN IF \E i \in 1..Len(lines) : Trim(lines[i]) = <<command>>
     THEN Trim(JoinLines(CleanLoop(lines, 1, FALSE, command)))
     ELSE Trim(JoinLines(SelectSeq(lines, LAMBDA l : ~MatchesPrompt(Trim(l)))))

\* ---- telnet executeCommand: one promise, its data listener and the device ----

\* pages 2..k+1 of the device's answer, each behind a --More-- marker
RECURSIVE MorePages(_, _)
MorePages(i, k) ==
  IF i > k THEN <<>>
  ELSE <<"--Mo", "re--", OutputLines[i + 1], "LF">> \o MorePages(i + 1, k)

\* what the device sends for the command when every page is asked for: the
\* echo, the first page, k further pages each behind a marker, the prompt
Script(command, k) ==
  <<command, "LF", OutputLines[1], "LF">> \o MorePages(1, k) \o <<PromptToken>>

\* the reference text: the device's answer with the markers removed
Reference(command, k) ==
  SelectSeq(Script(command, k), LAMBDA tok : tok \notin {"--Mo", "re--"})

\* the device pauses behind each marker until it has received a space: how
\* far it may have sent after n spaces
RECURSIVE PauseAt(_, _, _)
PauseAt(script, from, n) ==
  IF from >= Len(script) THEN Len(script)
  ELSE IF script[from] = "--Mo" /\ script[from + 1] = "re--"
       THEN (IF n = 0 THEN from + 1 ELSE PauseAt(script, from + 2, n - 1))
       ELSE PauseAt(script, from + 1, n)

\* what the telnet command machine leaves alone
tcmdFrame == <<sessionVars, chan, iac, dec, cln, login, setup, retry>>

\* executeCommand(command, timeout) on a connected socket: the executor armed
\* the timer, attached onData and wrote the command
InitTelnetCmd ==
  /\ SessionInit /\ engine = "telnet" /\ maxRetries = MaxRetriesCfg
  /\ retry = NoRetry
  /\ login = NoLogin /\ setup = NoSetup
  /\ chan = NoChan /\ iac = NoIac /\ dec = NoDec /\ cln = NoCln
  /\ \E c \in Commands, ms \in Timeouts, k \in 0..MaxMore :
       tcmd = [phase |-> "pending", command |-> c, timeout |-> ms, markers |-> k,
               sent |-> 0, spaces |-> 0, output |-> <<>>, timer |-> TRUE,
               timedOut |-> FALSE, settled |-> [kind |-> "pending"]]

\* onData(raw) with the next n tokens of the device's answer: accumulate; on
\* --More-- in this chunk write a space and return; else resolve when the last
\* line of the accumulated output matches the prompt
TelnetCmdData(n) ==
  LET script == Script(tcmd.command, tcmd.markers)
      text == SubSeq(script, tcmd.sent + 1, tcmd.sent + n)
      output == tcmd.output \o text
  IN /\ tcmd.phase = "pending"
     /\ tcmd.sent + n <= PauseAt(script, 1, tcmd.spaces)
     /\ IF HasMarker(text)
        THEN tcmd' = [tcmd EXCEPT !.sent = @ + n, !.output = output, !.spaces = @ + 1]
        ELSE IF MatchesPrompt(LastLine(output))
             THEN tcmd' = [tcmd EXCEPT !.sent = @ + n, !.output = output,
                                       !.phase = "done", !.timer = FALSE,
                                       !.settled = Settle(@, [kind |-> "resolved",
                                                   value |-> CleanOutput(output, tcmd.command)])]
             ELSE tcmd' = [tcmd EXCEPT !.sent = @ + n, !.output = output]
     /\ UNCHANGED tcmdFrame

\* the command timer of the ssh engine: reject whatever was accumulated
TelnetCmdTimeoutStrict ==
  /\ tcmd.phase = "pending" /\ tcmd.timer
  /\ tcmd' = [tcmd EXCEPT !.phase = "done", !.timer = FALSE, !.timedOut = TRUE,
                          !.settled = Settle(@, [kind |-> "TimeoutError",
                                      message |-> <<"Command timeout: ", tcmd.command>>,
                                      timeout |-> tcmd.timeout])]
  /\ UNCHANGED tcmdFrame

\* the command timer fires: remove the listener; resolve with the cleaned
\* output when output.length > 0, else reject with TimeoutError
TelnetCmdTimeout ==
  /\ tcmd.phase = "pending" /\ tcmd.timer
  /\ tcmd' = [tcmd EXCEPT !.phase = "done", !.timer = FALSE, !.timedOut = TRUE,
                          !.settled = Settle(@, IF Len(tcmd.output) > 0
                                      THEN [kind |-> "resolved",
                                            value |-> CleanOutput(tcmd.output, tcmd.command)]
                                      ELSE [kind |-> "TimeoutError",
                                            message |-> <<"Command timeout: ", tcmd.command>>,
                                            timeout |-> tcmd.timeout])]
  /\ UNCHANGED tcmdFrame

NextTelnetCmd ==
  \/ \E n \in 1..MaxChunkLen : TelnetCmdData(n)
  \/ TelnetCmdTimeout

SpecTelnetCmd == InitTelnetCmd /\ [][NextTelnetCmd]_vars

\* ---- telnet option negotiation: handleIACNegotiation(cmd, opt) ----

IAC == 255
DONT == 254
DO == 253
WONT == 252
WILL == 251
SB == 250
SE == 240
OPT_ECHO == 1
OPT_SUPPRESS_GO_AHEAD == 3
OPT_TERMINAL_TYPE == 24
OPT_NAWS == 31
NawsCols == 200
NawsRows == 50

\* the commands processIAC hands to handleIACNegotiation, every option byte,
\* and this.socket: null, destroyed or open
NegotiationCmds == {DO, DONT, WILL, WONT}
OptionBytes == 0..255
SocketStates == {"null", "destroyed", "open"}

iacFrame == <<sessionVars, chan, tcmd, dec, cln, login, setup, retry>>

\* processIAC met IAC <cmd> <opt>; nothing written to the socket yet
InitIac ==
  /\ SessionInit /\ engine = "telnet" /\ maxRetries = MaxRetriesCfg
  /\ retry = NoRetry
  /\ login = NoLogin /\ setup = NoSetup
  /\ chan = NoChan /\ tcmd = NoTcmd /\ dec = NoDec /\ cln = NoCln
  /\ \E cmd \in NegotiationCmds, opt \in OptionBytes, sock \in SocketStates :
       iac = [phase |-> "received", cmd |-> cmd, opt |-> opt, socket |-> sock,
              wire |-> <<>>]

\* handleIACNegotiation that answers DO NAWS with the bare WILL
HandleIACNegotiationNoWindow ==
  /\ iac.phase = "received"
  /\ iac' = [iac EXCEPT !.phase = "handled", !.wire =
       IF iac.socket # "open" THEN <<>>
       ELSE IF iac.cmd = DO
            THEN (IF iac.opt \in {OPT_SUPPRESS_GO_AHEAD, OPT_NAWS, OPT_TERMINAL_TYPE}
                  THEN << <<IAC, WILL, iac.opt>> >>
                  ELSE << <<IAC, WONT, iac.opt>> >>)
       ELSE IF iac.cmd = WILL
            THEN (IF iac.opt = OPT_ECHO \/ iac.opt = OPT_SUPPRESS_GO_AHEAD
                  THEN << <<IAC, DO, iac.opt>> >>
                  ELSE << <<IAC, DONT, iac.opt>> >>)
       ELSE IF iac.cmd = DONT THEN << <<IAC, WONT, iac.opt>> >>
       ELSE IF iac.cmd = WONT THEN << <<IAC, DONT, iac.opt>> >>
       ELSE <<>>]
  /\ UNCHANGED iacFrame

\* handleIACNegotiation(cmd, opt): return when the socket is missing or
\* destroyed, else one socket.write per reply buffer
HandleIACNegotiation ==
  /\ iac.phase = "received"
  /\ iac' = [iac EXCEPT !.phase = "handled", !.wire =
       IF iac.socket # "open" THEN <<>>
       ELSE IF iac.cmd = DO
            THEN (IF iac.opt = OPT_SUPPRESS_GO_AHEAD THEN << <<IAC, WILL, iac.opt>> >>
                  ELSE IF iac.opt = OPT_NAWS
                       THEN << <<IAC, WILL, iac.opt>>,
                               <<IAC, SB, OPT_NAWS, 0, NawsCols, 0, NawsRows, IAC, SE>> >>
                  ELSE IF iac.opt = OPT_TERMINAL_TYPE THEN << <<IAC, WILL, iac.opt>> >>
                  ELSE << <<IAC, WONT, iac.opt>> >>)
       ELSE IF iac.cmd = WILL
            THEN (IF iac.opt = OPT_ECHO \/ iac.opt = OPT_SUPPRESS_GO_AHEAD
                  THEN << <<IAC, DO, iac.opt>> >>
                  ELSE << <<IAC, DONT, iac.opt>> >>)
       ELSE IF iac.cmd = DONT THEN << <<IAC, WONT, iac.opt>> >>
       ELSE IF iac.cmd = WONT THEN << <<IAC, DONT, iac.opt>> >>
       ELSE <<>>]
  /\ UNCHANGED iacFrame

NextIac == HandleIACNegotiation

SpecIac == InitIac /\ [][NextIac]_vars

\* ---- telnet decoding of one buffer: processIAC(data) ----

\* the inner while of the SB branch: the index after the first IAC SE found
\* from j on, or the last index of the buffer when there is none
RECURSIVE SkipSubnegotiation(_, _)
SkipSubnegotiation(data, j) ==
  IF j >= Len(data) THEN j
  ELSE IF data[j] = IAC /\ data[j + 1] = SE THEN j + 2
  ELSE SkipSubnegotiation(data, j + 1)

\* the while loop of processIAC from index i on: the bytes pushed to cleaned
\* and the (cmd, opt) pairs handed to handleIACNegotiation
RECURSIVE ProcessLoop(_, _, _, _)
ProcessLoop(data, i, cleaned, calls) ==
  IF i > Len(data) THEN [cleaned |-> cleaned, calls |-> calls]
  ELSE IF data[i] = IAC
       THEN IF i + 1 > Len(data) THEN [cleaned |-> cleaned, calls |-> calls]
            ELSE LET cmd == data[i + 1]
                 IN IF cmd = IAC THEN ProcessLoop(data, i + 2, Append(cleaned, IAC), calls)
                    ELSE IF cmd \in {DO, DONT, WILL, WONT}
                         THEN IF i + 2 > Len(data) THEN [cleaned |-> cleaned, calls |-> calls]
                              ELSE ProcessLoop(data, i + 3, cleaned,
                                               Append(calls, <<cmd, data[i + 2]>>))
                    ELSE IF cmd = SB
                         THEN ProcessLoop(data, SkipSubnegotiation(data, i + 2), cleaned, calls)
                    ELSE ProcessLoop(data, i + 2, cleaned, calls)
       ELSE ProcessLoop(data, i + 1, Append(cleaned, data[i]), calls)

\* processIAC(data)
ProcessIAC(data) == ProcessLoop(data, 1, <<>>, <<>>)

\* what the device puts into a buffer: application bytes, option
\* negotiations, and subnegotiations of TERMINAL-TYPE with any payload
AppByteSet == {65, SE, IAC}
PayloadByteSet == {1, SE, IAC}
MaxSegments == 2
MaxPayload == 3

Payloads == UNION {[1..n -> PayloadByteSet] : n \in 0..MaxPayload}

Segments ==
  {<<"app", b>> : b \in AppByteSet}
  \cup {<<"neg", DO, OPT_SUPPRESS_GO_AHEAD>>, <<"neg", WILL, OPT_ECHO>>, <<"neg", WONT, IAC>>}
  \cup {<<"sub", OPT_TERMINAL_TYPE, p>> : p \in Payloads}

\* a data byte 255 travels as IAC IAC
RECURSIVE EscapeIAC(_)
EscapeIAC(bytes) ==
  IF bytes = <<>> THEN <<>>
  ELSE (IF Head(bytes) = IAC THEN <<IAC, IAC>> ELSE <<Head(bytes)>>) \o EscapeIAC(Tail(bytes))

\* the bytes of one segment on the wire
Wire(seg) ==
  CASE seg[1] = "app" -> EscapeIAC(<<seg[2]>>)
    [] seg[1] = "neg" -> <<IAC, seg[2], seg[3]>>
    [] seg[1] = "sub" -> <<IAC, SB, seg[2]>> \o EscapeIAC(seg[3]) \o <<IAC, SE>>

RECURSIVE WireOf(_)
WireOf(stream) == IF stream = <<>> THEN <<>> ELSE Wire(Head(stream)) \o WireOf(Tail(stream))

\* the application bytes of a stream of segments, in order
RECURSIVE AppBytes(_)
AppBytes(stream) ==
  IF stream = <<>> THEN <<>>
  ELSE (IF Head(stream)[1] = "app" THEN <<Head(stream)[2]>> ELSE <<>>) \o AppBytes(Tail(stream))

decFrame == <<sessionVars, chan, tcmd, iac, cln, login, setup, retry>>

\* a socket whose next 'data' event is being assembled by the device
InitDecode ==
  /\ SessionInit /\ engine = "telnet" /\ maxRetries = MaxRetriesCfg
  /\ retry = NoRetry
  /\ login = NoLogin /\ setup = NoSetup
  /\ chan = NoChan /\ tcmd = NoTcmd /\ iac = NoIac /\ cln = NoCln
  /\ dec = [phase |-> "building", stream |-> <<>>, cleaned |-> <<>>, calls |-> <<>>]

\* the device appends one segment to the buffer
DeviceSends(seg) ==
  /\ dec.phase = "building" /\ Len(dec.stream) < MaxSegments
  /\ dec' = [dec EXCEPT !.stream = Append(@, seg)]
  /\ UNCHANGED decFrame

\* the 'data' event: const cleaned = this.processIAC(raw)
DataEvent ==
  /\ dec.phase = "building"
  /\ LET r == ProcessIAC(WireOf(dec.stream))
     IN dec' = [dec EXCEPT !.phase = "decoded", !.cleaned = r.cleaned, !.calls = r.calls]
  /\ UNCHANGED decFrame

NextDecode ==
  \/ \E seg \in Segments : DeviceSends(seg)
  \/ DataEvent

SpecDecode == InitDecode /\ [][NextDecode]_vars

\* ---- telnet cleaning of one accumulation: cleanOutput(raw, command) ----

MaxItems == 3

\* what a device prints between the echo and the prompt: lines ended by CR LF
\* (plain, indented, with a tab), a --More-- marker with the run that erases
\* it, a bell
BodyItems ==
  { <<"line1", "CR", "LF">>, <<"line2", "CR", "LF">>, <<"SP", "line1", "CR", "LF">>,
    <<"line1", "TAB", "line2", "CR", "LF">>,
    <<"--Mo", "re--", "BS", "BS", "SP", "SP", "BS", "BS">>, <<"BEL">> }

RECURSIVE Flatten(_)
Flatten(items) == IF items = <<>> THEN <<>> ELSE Head(items) \o Flatten(Tail(items))

\* the accumulation of a completed command: echo, body, prompt
RawOf(command, body) == <<command, "CR", "LF">> \o Flatten(body) \o <<PromptToken>>

clnFrame == <<sessionVars, chan, tcmd, iac, dec, login, setup, retry>>

\* a command was written and its echo has arrived
InitClean ==
  /\ SessionInit /\ engine = "telnet" /\ maxRetries = MaxRetriesCfg
  /\ retry = NoRetry
  /\ login = NoLogin /\ setup = NoSetup
  /\ chan = NoChan /\ tcmd = NoTcmd /\ iac = NoIac /\ dec = NoDec
  /\ \E c \in Commands : cln = [phase |-> "accumulating", command |-> c, body |-> <<>>,
                                cleaned |-> <<>>]

\* output += text
DevicePrints(item) ==
  /\ cln.phase = "accumulating" /\ Len(cln.body) < MaxItems
  /\ cln' = [cln EXCEPT !.body = Append(@, item)]
  /\ UNCHANGED clnFrame

\* the prompt arrived: resolve(this.cleanOutput(output, command))
PromptArrives ==
  /\ cln.phase = "accumulating"
  /\ cln' = [cln EXCEPT !.phase = "cleaned",
                        !.cleaned = CleanOutput(RawOf(cln.command, cln.body), cln.command)]
  /\ UNCHANGED clnFrame

NextClean ==
  \/ \E item \in BodyItems : DevicePrints(item)
  \/ PromptArrives

SpecClean == InitClean /\ [][NextClean]_vars

\* ---- telnet executeCommand: the data listener under any device output ----

MaxOutputLen == 5
MaxTextLen == 3

\* what one 'data' event may carry once the IAC sequences are stripped: any
\* non-empty run of echo, output line, newline, blank, escape sequence, half of
\* a pagination marker, prompt
TextTokens == {"show version", "line1", "LF", "SP", "ANSI", "--Mo", "re--", PromptToken}
TextChunks == UNION {[1..n -> TextTokens] : n \in 1..MaxTextLen}

\* executeCommand('show version') on a connected socket: the executor armed
\* the timer, attached onData and wrote the command
InitTelnetData ==
  /\ SessionInit /\ engine = "telnet" /\ maxRetries = MaxRetriesCfg
  /\ retry = NoRetry
  /\ login = NoLogin /\ setup = NoSetup
  /\ chan = NoChan /\ iac = NoIac /\ dec = NoDec /\ cln = NoCln
  /\ tcmd = [phase |-> "pending", command |-> "show version", timeout |-> 30000,
             markers |-> 0, sent |-> 0, spaces |-> 0, output |-> <<>>, timer |-> TRUE,
             timedOut |-> FALSE, settled |-> [kind |-> "pending"]]

\* onData that tests the prompt without looking for --More-- first
OnDataIgnoresMarker(text) ==
  LET output == tcmd.output \o text
  IN /\ tcmd.phase = "pending" /\ Len(output) <= MaxOutputLen
     /\ IF MatchesPrompt(LastLine(output))
        THEN tcmd' = [tcmd EXCEPT !.sent = @ + Len(text), !.output = output,
                                  !.phase = "done", !.timer = FALSE,
                                  !.settled = Settle(@, [kind |-> "resolved",
                                              value |-> CleanOutput(output, tcmd.command)])]
        ELSE tcmd' = [tcmd EXCEPT !.sent = @ + Len(text), !.output = output,
                                  !.spaces = @ + (IF HasMarker(text) THEN 1 ELSE 0)]
     /\ UNCHANGED tcmdFrame

\* onData(raw) whose cleaned text is text: output += text; on --More-- in
\* this chunk write a space and return; else, when the last line of the
\* ANSI-stripped output matches promptPattern, clear the timer, remove the
\* listener and resolve
OnData(text) ==
  LET output == tcmd.output \o text
  IN /\ tcmd.phase = "pending" /\ Len(output) <= MaxOutputLen
     /\ IF HasMarker(text)
        THEN tcmd' = [tcmd EXCEPT !.sent = @ + Len(text), !.output = output, !.spaces = @ + 1]
        ELSE IF MatchesPrompt(LastLine(output))
             THEN tcmd' = [tcmd EXCEPT !.sent = @ + Len(text), !.output = output,
                                       !.phase = "done", !.timer = FALSE,
                                       !.settled = Settle(@, [kind |-> "resolved",
                                                   value |-> CleanOutput(output, tcmd.command)])]
             ELSE tcmd' = [tcmd EXCEPT !.sent = @ + Len(text), !.output = output]
     /\ UNCHANGED tcmdFrame

NextTelnetData ==
  \/ \E text \in TextChunks : OnData(text)
  \/ TelnetCmdTimeout

SpecTelnetData == InitTelnetData /\ [][NextTelnetData]_vars

\* ---- telnet attemptConnection: the data listener of the login ----

MaxLoginEvents == 3
MaxLoginChunk == 2

\* the prompt of the unprivileged mode
UserPromptToken == "sw>"

\* what the device sends before the CLI is reached: a login prompt, a
\* password prompt, banner text, newlines, blanks, a CLI prompt
LoginTokens == {"login:", "Password:", "banner", "LF", "SP", UserPromptToken, PromptToken}
LoginChunks == UNION {[1..n -> LoginTokens] : n \in 1..MaxLoginChunk}

\* /login[:\s]*$/i.test(text) and /password[:\s]*$/i.test(text): the word ends
\* the text, whitespace aside
EndsWith(text, tok) ==
  LET l == DropTrailingWs(text) IN l # <<>> /\ l[Len(l)] = tok

\* detectPrompt(text): the trimmed last line is a prompt and nothing else;
\* "none" when it is not, else the mode character
DetectPrompt(text) ==
  LET lines == SplitLines(text)
      lastLine == Trim(lines[Len(lines)])
  IN IF lastLine = <<UserPromptToken>> THEN ">"
     ELSE IF lastLine = <<PromptToken>> THEN "#"
     ELSE "none"

loginFrame == <<sessionVars, chan, tcmd, iac, dec, cln, setup, retry>>

\* attemptConnection() created the socket and attached onData
InitLogin ==
  /\ SessionInit /\ engine = "telnet" /\ maxRetries = MaxRetriesCfg
  /\ retry = NoRetry
  /\ chan = NoChan /\ tcmd = NoTcmd /\ iac = NoIac /\ dec = NoDec /\ cln = NoCln
  /\ setup = NoSetup
  /\ login = [phase |-> "login", initialData |-> <<>>, promptDetected |-> FALSE,
              onData |-> TRUE, wrote |-> <<>>, events |-> 0, inEnableMode |-> FALSE]

\* onData(data) of attemptConnection, text being the cleaned bytes: append to
\* initialData; on a login prompt write the username and reset; on a password
\* prompt write the password and reset; on the CLI prompt remove the listener
\* and go on to postConnectSetup()
AttemptOnData(text) ==
  LET initialData == login.initialData \o text
  IN /\ login.phase = "login" /\ login.onData /\ login.events < MaxLoginEvents
     /\ login' =
          IF ~login.promptDetected /\ EndsWith(initialData, "login:")
          THEN [login EXCEPT !.wrote = Append(@, "username"), !.initialData = <<>>,
                             !.events = @ + 1]
          ELSE IF ~login.promptDetected /\ EndsWith(initialData, "Password:")
          THEN [login EXCEPT !.wrote = Append(@, "password"), !.initialData = <<>>,
                             !.events = @ + 1]
          ELSE IF ~login.promptDetected /\ DetectPrompt(initialData) # "none"
          THEN [login EXCEPT !.promptDetected = TRUE, !.onData = FALSE, !.phase = "setup",
                             !.initialData = initialData, !.events = @ + 1,
                             !.inEnableMode = (DetectPrompt(initialData) = "#")]
          ELSE [login EXCEPT !.initialData = initialData, !.events = @ + 1]
     /\ UNCHANGED loginFrame

\* data that arrives once onData was removed from the socket
DataAfterPrompt(text) ==
  /\ login.phase = "setup" /\ ~login.onData /\ login.events < MaxLoginEvents
  /\ login' = [login EXCEPT !.events = @ + 1]
  /\ UNCHANGED loginFrame

NextLogin ==
  \/ \E text \in LoginChunks : AttemptOnData(text)
  \/ \E text \in LoginChunks : DataAfterPrompt(text)

SpecLogin == InitLogin /\ [][NextLogin]_vars

\* ---- telnet postConnectSetup(): the enable handshake and terminal length 0 ----

MaxReplyLen == 3
MaxReplyChunk == 2

\* what the device answers during the setup: a password prompt, the prompt
\* in either mode, a line that ends in '#' without being the learned prompt,
\* other text, newlines
ReplyTokens == {"Password:", PromptToken, UserPromptToken, "x#", "text", "LF"}
ReplyChunks == UNION {[1..n -> ReplyTokens] : n \in 1..MaxReplyChunk}

\* this.promptPattern.test(text) with the learned pattern: the text ends with
\* the learned prompt in either mode, whitespace aside
PromptPatternTest(text) ==
  EndsWith(text, PromptToken) \/ EndsWith(text, UserPromptToken)

\* isPromptLine(text, '#'): the trimmed last line ends with '#'
IsPromptLine(text) ==
  LET lines == SplitLines(text)
      lastLine == Trim(lines[Len(lines)])
  IN lastLine # <<>> /\ lastLine[Len(lastLine)] \in {PromptToken, "x#"}

setupFrame == <<sessionVars, chan, tcmd, iac, dec, cln, login, retry>>

\* the CLI prompt was detected in one mode or the other; the configuration
\* has an enablePassword or not
InitSetup ==
  /\ SessionInit /\ engine = "telnet" /\ maxRetries = MaxRetriesCfg
  /\ retry = NoRetry
  /\ chan = NoChan /\ tcmd = NoTcmd /\ iac = NoIac /\ dec = NoDec /\ cln = NoCln
  /\ login = NoLogin
  /\ \E mode \in BOOLEAN, enablePassword \in {"undefined", "enable-secret"} :
       setup = [pc |-> "start", inEnableMode |-> mode, atPrompt |-> mode,
                enablePassword |-> enablePassword, password |-> "login-secret",
                socket |-> "open", output |-> <<>>, calls |-> <<>>, wrote |-> <<>>,
                reply |-> <<>>, attempt |-> "pending"]

\* postConnectSetup() returned or threw: .then(() => resolve()).catch(() => resolve())
SetupOver(s) == [s EXCEPT !.pc = "done", !.attempt = "resolved"]

\* rawSendAndWait(data, timeout) called at s: rejected at once when the socket
\* is destroyed (the setup goes on as rejected says), else the listener is
\* attached and the data written
RawSendAndWait(s, data, waitPc, rejected) ==
  IF s.socket # "open"
  THEN [rejected EXCEPT !.calls = Append(s.calls, data)]
  ELSE [s EXCEPT !.calls = Append(@, data), !.wrote = Append(@, data), !.output = <<>>,
                 !.pc = waitPc]

\* a setup that sets the terminal length in either mode
TerminalLengthAlways(s) ==
  RawSendAndWait(s, "terminal length 0", "wait_length", SetupOver(s))

\* the second part of postConnectSetup(): terminal length 0 when in enable mode
TerminalLength(s) ==
  IF s.inEnableMode
  THEN RawSendAndWait(s, "terminal length 0", "wait_length", SetupOver(s))
  ELSE SetupOver(s)

\* an enable step whose failure ends the setup with an error
EnableFailedFatal(s) == [s EXCEPT !.pc = "done", !.attempt = "rejected"]

\* the enable step threw: the catch logs and the setup goes on
EnableFailed(s) == TerminalLength(s)

\* postConnectSetup() after rawSendAndWait settled with output at pc
AfterReply(s, output) ==
  LET stripped == Trim(StripAnsi(output))
  IN CASE s.pc = "wait_enable" ->
            LET r == [s EXCEPT !.reply = stripped]
            IN IF EndsWith(stripped, "Password:") THEN [r EXCEPT !.pc = "sleep200"]
               ELSE IF IsPromptLine(stripped)
                    THEN TerminalLength([r EXCEPT !.inEnableMode = TRUE])
                    ELSE TerminalLength(r)
       [] s.pc = "wait_password" ->
            LET r == [s EXCEPT !.reply = stripped]
            IN IF IsPromptLine(stripped)
               THEN TerminalLength([r EXCEPT !.inEnableMode = TRUE])
               ELSE TerminalLength(r)
       [] OTHER -> SetupOver(s)

\* postConnectSetup() up to its first await
PostConnectSetup ==
  /\ setup.pc = "start"
  /\ setup' = IF ~setup.inEnableMode THEN [setup EXCEPT !.pc = "sleep500"]
              ELSE TerminalLength(setup)
  /\ UNCHANGED setupFrame

\* await this.sleep(500) is over: rawSendAndWait('enable\r\n', 5000)
Sleep500Done ==
  /\ setup.pc = "sleep500"
  /\ setup' = RawSendAndWait(setup, "enable", "wait_enable", EnableFailed(setup))
  /\ UNCHANGED setupFrame

\* await this.sleep(200) is over: rawSendAndWait(pw + '\r\n', 5000)
Sleep200Done ==
  /\ setup.pc = "sleep200"
  /\ LET pw == IF setup.enablePassword # "undefined" THEN setup.enablePassword
               ELSE setup.password
     IN setup' = RawSendAndWait(setup, pw, "wait_password", EnableFailed(setup))
  /\ UNCHANGED setupFrame

WaitPcs == {"wait_enable", "wait_password", "wait_length"}

\* onData of rawSendAndWait: output += cleaned; resolve on the prompt pattern
\* or on a password prompt
RawOnData(text) ==
  LET output == setup.output \o text
  IN /\ setup.pc \in WaitPcs /\ setup.socket = "open" /\ Len(output) <= MaxReplyLen
     /\ setup' = IF PromptPatternTest(StripAnsi(output)) \/ EndsWith(Trim(output), "Password:")
                 THEN AfterReply([setup EXCEPT !.output = output], output)
                 ELSE [setup EXCEPT !.output = output]
     /\ UNCHANGED setupFrame

\* the timer of rawSendAndWait: resolve(output) with what has arrived
RawTimeout ==
  /\ setup.pc \in WaitPcs
  /\ setup' = AfterReply(setup, setup.output)
  /\ UNCHANGED setupFrame

\* the transport closes the socket while the setup is suspended
SetupSocketCloses ==
  /\ setup.pc \notin {"none", "start", "done"} /\ setup.socket = "open"
  /\ setup' = [setup EXCEPT !.socket = "destroyed"]
  /\ UNCHANGED setupFrame

NextSetup ==
  \/ PostConnectSetup
  \/ Sleep500Done
  \/ Sleep200Done
  \/ \E text \in ReplyChunks : RawOnData(text)
  \/ RawTimeout
  \/ SetupSocketCloses

SpecSetup == InitSetup /\ [][NextSetup]_vars

\* ---- telnet decoding of a byte stream that arrives in two buffers ----

\* segments whose decoding in one buffer is exact: an application byte, an
\* option negotiation, a subnegotiation whose payload holds no IAC
SplitSegments ==
  {<<"app", 65>>, <<"app", IAC>>}
  \cup {<<"neg", DO, OPT_SUPPRESS_GO_AHEAD>>, <<"neg", WILL, OPT_ECHO>>}
  \cup {<<"sub", OPT_TERMINAL_TYPE, <<>> >>, <<"sub", OPT_TERMINAL_TYPE, <<1>> >>}

\* the (cmd, opt) pairs of the negotiations of a stream of segments, in order
RECURSIVE Negotiations(_)
Negotiations(stream) ==
  IF stream = <<>> THEN <<>>
  ELSE (IF Head(stream)[1] = "neg" THEN << <<Head(stream)[2], Head(stream)[3]>> >> ELSE <<>>)
         \o Negotiations(Tail(stream))

\* a socket whose next bytes are being assembled by the device
InitSplit ==
  /\ SessionInit /\ engine = "telnet" /\ maxRetries = MaxRetriesCfg
  /\ retry = NoRetry
  /\ chan = NoChan /\ tcmd = NoTcmd /\ iac = NoIac /\ cln = NoCln
  /\ login = NoLogin /\ setup = NoSetup
  /\ dec = [phase |-> "building", stream |-> <<>>, cleaned |-> <<>>, calls |-> <<>>,
            rest |-> <<>>]

\* the first 'data' event carries the first k bytes of what the device sent:
\* const cleaned = this.processIAC(raw)
FirstDataEvent(k) ==
  /\ dec.phase = "building"
  /\ LET wire == WireOf(dec.stream)
     IN /\ k \in 1..(Len(wire) - 1)
        /\ LET r == ProcessIAC(SubSeq(wire, 1, k))
           IN dec' = [dec EXCEPT !.phase = "split", !.cleaned = r.cleaned, !.calls = r.calls,
                                 !.rest = SubSeq(wire, k + 1, Len(wire))]
  /\ UNCHANGED decFrame

\* the second 'data' event carries the remaining bytes; the listener appends
\* what processIAC returns for it
SecondDataEvent ==
  /\ dec.phase = "split"
  /\ LET r == ProcessIAC(dec.rest)
     IN dec' = [dec EXCEPT !.phase = "reassembled", !.cleaned = @ \o r.cleaned,
                           !.calls = @ \o r.calls, !.rest = <<>>]
  /\ UNCHANGED decFrame

NextSplit ==
  \/ \E seg \in SplitSegments : DeviceSends(seg)
  \/ \E k \in 1..(6 * MaxSegments) : FirstDataEvent(k)
  \/ SecondDataEvent

SpecSplit == InitSplit /\ [][NextSplit]_vars

\* ---- executeCommandWithRetry(command, maxAttempts, timeout), both engines ----

MaxAttempts == 3

\* how an awaited executeCommand() can fail: a connection error of the engine
\* (SSHConnectionError / TelnetConnectionError), a TimeoutError, a
\* CommandExecutionError
CommandErrors == {"ConnectionError", "TimeoutError", "CommandExecutionError"}

\* how an awaited reconnect() can fail: its connect() throws
ReconnectErrors == {"ConnectionError", "TimeoutError"}

retryFrame == <<sessionVars, chan, tcmd, iac, dec, cln, login, setup>>

\* executeCommandWithRetry was called
InitRetry ==
  /\ SessionInit
  /\ chan = NoChan /\ tcmd = NoTcmd /\ iac = NoIac /\ dec = NoDec /\ cln = NoCln
  /\ login = NoLogin /\ setup = NoSetup
  /\ \E c \in Commands, n \in 0..MaxAttempts :
       retry = [phase |-> "called", command |-> c, maxAttempts |-> n, attempt |-> 1,
                executions |-> 0, lastError |-> "undefined",
                settled |-> [kind |-> "pending"]]

\* the head of the for loop at r: the next executeCommand, or after the loop
\* throw new CommandExecutionError(..., command, undefined, lastError)
ForLoop(r) ==
  IF r.attempt <= r.maxAttempts
  THEN [r EXCEPT !.phase = "executing", !.executions = @ + 1]
  ELSE [r EXCEPT !.phase = "done",
                 !.settled = Settle(@, [kind |-> "CommandExecutionError",
                                        command |-> r.command,
                                        details |-> r.lastError])]

\* executeCommandWithRetry up to its first await
RetryEntry ==
  /\ retry.phase = "called"
  /\ retry' = ForLoop(retry)
  /\ UNCHANGED retryFrame

\* return await this.executeCommand(command, timeout): it resolved
RetryExecResolves(v) ==
  /\ retry.phase = "executing"
  /\ retry' = [retry EXCEPT !.phase = "done",
                            !.settled = Settle(@, [kind |-> "resolved", value |-> v])]
  /\ UNCHANGED retryFrame

\* catch (error): lastError = error; sleep before another attempt, else leave
\* the loop by attempt++
RetryExecRejects(e) ==
  /\ retry.phase = "executing"
  /\ retry' = IF retry.attempt < retry.maxAttempts
              THEN [retry EXCEPT !.lastError = e, !.phase = "sleeping"]
              ELSE ForLoop([retry EXCEPT !.lastError = e, !.attempt = @ + 1])
  /\ UNCHANGED retryFrame

\* await this.sleep(this.retryDelay * attempt) is over: reconnect() on a
\* connection error or a timeout, else the next attempt
RetrySleepDone ==
  /\ retry.phase = "sleeping"
  /\ retry' = IF retry.lastError \in {"ConnectionError", "TimeoutError"}
              THEN [retry EXCEPT !.phase = "reconnecting"]
              ELSE ForLoop([retry EXCEPT !.attempt = @ + 1])
  /\ UNCHANGED retryFrame

\* await this.reconnect() returned: the next attempt
RetryReconnectReturns ==
  /\ retry.phase = "reconnecting"
  /\ retry' = ForLoop([retry EXCEPT !.attempt = @ + 1])
  /\ UNCHANGED retryFrame

\* await this.reconnect() threw inside the catch block: the error leaves
\* executeCommandWithRetry
RetryReconnectThrows(e) ==
  /\ retry.phase = "reconnecting"
  /\ retry' = [retry EXCEPT !.phase = "done", !.settled = Settle(@, [kind |-> e])]
  /\ UNCHANGED retryFrame

NextRetry ==
  \/ RetryEntry
  \/ \E v \in {"", "out"} : RetryExecResolves(v)
  \/ \E e \in CommandErrors : RetryExecRejects(e)
  \/ RetrySleepDone
  \/ RetryReconnectReturns
  \/ \E e \in ReconnectErrors : RetryReconnectThrows(e)

SpecRetry == InitRetry /\ [][NextRetry]_vars

TypeOK ==
  /\ engine \in Engines
  /\ maxRetries \in 0..MaxRetriesCfg
  /\ state \in ConnectionState
  /\ client \in ClientStates
  /\ connectionAttempts \in 0..(MaxRetriesCfg + 5)
  /\ keepaliveTimer \in BOOLEAN
  /\ reconnectTimer \in {"undefined", "pending", "dead"}
  /\ idle \in 0..IdleCap
  /\ kaLive \in 0..2 /\ rtLive \in 0..2
  /\ sockCreator \in Threads \cup {"none"}
  /\ \A t \in Threads : pc[t] \in BlockedPcs \cup RunPcs
  /\ \A t \in Threads : Len(results[t]) <= MaxBatch


\* ---- the claims ----

\* C1: at most one Pending Command exists per session at any instant
C1_AtMostOnePending == Cardinality(PendingCommands) <= 1

\* C2: an unexpected close of a Connected session schedules exactly one
\* reconnect (state Reconnecting, the reconnect timer pending), and there are
\* never two pending reconnect timers
C2_CloseSchedulesOneReconnect ==
  /\ [](rtLive <= 1)
  /\ [][(SockClose /\ state = CONNECTED)
          => (state' = RECONNECTING /\ reconnectTimer' = "pending" /\ rtLive' = 1)]_vars

\* a Connected session was closed by the transport and its reconnect is pending
C2_Witness ==
  /\ client = "closed" /\ state = RECONNECTING
  /\ reconnectTimer = "pending" /\ rtLive = 1 /\ keepaliveTimer

\* C3: a connect() call that runs the retry loop makes at most maxRetries
\* attempts, and when every attempt failed it raises a connection error with
\* the state Error (it does not return normally)
C3_AttemptsBounded ==
  \A t \in Threads :
    /\ made[t] <= maxRetries
    /\ pc[t] = "connect_ret" => fail[t] \notin {"error", "timeout"}
    /\ (pc[t] = "connect_throw" /\ fail[t] \in {"error", "timeout"})
         => (state = ERROR /\ val[t] = "ConnErr")

\* C4: the delay slept before attempt i (2 <= i <= maxRetries) of one connect()
\* call is retryDelay * 2^(i-2)
C4_BackoffLaw ==
  \A t \in Threads :
    (pc[t] = "conn_sleep" /\ made[t] + 1 <= maxRetries)
      => delay[t] = Pow2(made[t] - 1)

\* C5: when an attempt succeeds the handler sets Connected, resets the attempt
\* counter and records the activity time, and the resolved attempt starts the
\* keepalive timer, which replaces any previous keepalive timer
C5_AttemptSuccess ==
  [][/\ SockReady => /\ state' = CONNECTED
                     /\ connectionAttempts' = 0
                     /\ idle' = 0
                     /\ pc'[sockCreator] \in {"attempt_ok", "conn_setup"}
     /\ \A t \in Threads : AttemptOk(t) => (keepaliveTimer' /\ kaLive' = 1)]_vars

\* a second successful connection of the session: its keepalive timer has
\* replaced the first connection's
C5_Witness ==
  \E t \in Threads :
    /\ pc[t] = "connect_ret" /\ made[t] >= 1 /\ fail[t] = "none"
    /\ keepaliveTimer /\ kaLive = 1 /\ state = CONNECTED /\ connectionAttempts = 0
    /\ socksLeft <= MaxSockets - 2

\* a connect() retry loop is between its first attempt and its end
Retrying(u) == pc[u] \in {"conn_attempt", "conn_sleep"}

\* C6: a connect() made while Connecting settles only once the connect in
\* progress has: it does not fail with a connection error while that connect
\* is still retrying
C6_WaiterFollowsConnect ==
  \A t \in Threads :
    (pc[t] = "connect_throw" /\ fail[t] = "waiting" /\ val[t] = "ConnErr")
      => ~(\E u \in Threads \ {t} : Retrying(u))

\* what disconnect() leaves behind
Disconnected ==
  /\ state = DISCONNECTED /\ client = "null"
  /\ ~keepaliveTimer /\ kaLive = 0
  /\ reconnectTimer = "undefined" /\ rtLive = 0
  /\ learnedPrompt = "" /\ ~inEnableMode

\* C7: after disconnect() the state is Disconnected, the client is null and no
\* keepalive or reconnect timer is pending; disconnect() on a session that is
\* already so changes nothing
C7_DisconnectPost ==
  [][\A t \in Callers : CallDisconnect(t)
        => /\ Disconnected'
           /\ Disconnected => UNCHANGED <<sessVars, loopVars>>]_vars

\* disconnect() returned on a session that had a command pending
C7_Witness ==
  \E t \in Callers :
    /\ pc[t] = "returned" /\ op[t] = "disconnect" /\ Disconnected
    /\ \E u \in Threads : pc[u] = "cmd_pending" /\ lost[u] = "disconnect"

\* C8: a command pending when disconnect() is called is rejected with a
\* connection-lost error
C8_DisconnectRejectsPending ==
  \A t \in Threads :
    (pc[t] = "exec_done" /\ lost[t] = "disconnect") => val[t] = "ConnErr"

\* C9: a command in flight when a Connected session's transport closes is
\* rejected with a connection-lost error
C9_CloseRejectsPending ==
  \A t \in Threads :
    (pc[t] = "exec_done" /\ lost[t] = "closed") => val[t] = "ConnErr"

\* C10: executeMultipleCommands never raises and returns an array as long as
\* its input, with '' at the indices whose command failed and the command's
\* output at the others
C10_BatchNeverRaises ==
  \A t \in Threads :
    op[t] = "batch" =>
      /\ Len(results[t]) = Len(outcomes[t])
      /\ \A i \in 1..Len(results[t]) :
           results[t][i] = IF IsError(outcomes[t][i]) THEN "" ELSE outcomes[t][i]
      /\ pc[t] = "returned" => (ret[t] = "array" /\ Len(results[t]) = batchLen[t])

\* a batch of two returned with one command failed and one answered
C10_Witness ==
  \E t \in Threads :
    /\ op[t] = "batch" /\ pc[t] = "returned" /\ batchLen[t] = 2
    /\ \E i, j \in 1..2 : IsError(outcomes[t][i]) /\ outcomes[t][j] = "out"

\* the batch of chain t is inside executeCommand
InCommand(t) ==
  pc[t] \in {"exec_entry", "connect_entry", "loop_head", "attempt_ok", "attempt_fail",
            "connect_ret", "connect_throw", "exec_issue", "exec_done", "conn_attempt",
            "conn_setup", "conn_sleep", "conn_wait", "cmd_pending"}

\* C11: executeMultipleCommands hands its commands to executeCommand one at a
\* time and in input order: the commands handed over so far are 1, 2, ..., n
\* each once, command n+1 is handed over only when the results of 1..n are in
\* the array, and a returned batch has handed over every command
C11_BatchInOrder ==
  \A t \in Threads :
    op[t] = "batch" =>
      /\ issued[t] = [i \in 1..Len(issued[t]) |-> i]
      /\ Len(issued[t]) = Len(results[t]) + (IF InCommand(t) /\ pc[t] # "exec_entry" THEN 1 ELSE 0)
      /\ pc[t] = "returned" => Len(issued[t]) = batchLen[t]

\* a batch of two returned after its second command had waited for the first
C11_Witness ==
  \E t \in Threads :
    /\ op[t] = "batch" /\ pc[t] = "returned" /\ batchLen[t] = 2
    /\ issued[t] = <<1, 2>> /\ Len(results[t]) = 2

\* executeCommand of chain t writes its command (telnet) or asks for its exec
\* channel (ssh) in this step
Writes(t) == ExecIssue(t) /\ written'[t] = written[t] + 1

\* C12: a command given to executeCommand is written at most once, it is
\* written only on a session that is Connected at that moment, and a command
\* that was never written has failed with a connection error (or with the
\* timeout of the wait for a connect in progress)
C12_NoBufferNoReplay ==
  /\ [](\A t \in Threads : written[t] <= 1)
  /\ [](\A t \in Threads :
          (pc[t] = "exec_done" /\ written[t] = 0) => val[t] \in {"ConnErr", "Timeout"})
  /\ [][\A t \in Threads : Writes(t) => IsConnected]_vars

\* positions inside connect()
ConnectPcs == {"connect_entry", "loop_head", "attempt_ok", "attempt_fail", "connect_ret",
               "connect_throw", "conn_attempt", "conn_setup", "conn_sleep", "conn_wait"}

\* C13: healthCheck() on a session that is not Connected returns false at once
\* and touches nothing; on a Connected session it never enters connect(),
\* issues at most one command and returns true when that command resolved and
\* false when it was rejected; it never raises
C13_HealthCheck ==
  /\ [](\A t \in Threads :
          op[t] = "health" =>
            /\ pc[t] \notin ConnectPcs
            /\ written[t] <= 1
            /\ pc[t] = "returned" => ret[t] \in {"true", "false"})
  /\ [][\A t \in Callers :
          /\ (CallHealthCheck(t) /\ ~IsConnected)
                => (pc'[t] = "returned" /\ ret'[t] = "false"
                      /\ UNCHANGED <<sessVars, loopVars, written, socksLeft>>)
          /\ (ExecDone(t) /\ op[t] = "health")
                => ret'[t] = (IF val[t] \in Outputs THEN "true" ELSE "false")]_vars

\* a health check of a Connected session returned true after its one command
C13_Witness ==
  \E t \in Callers :
    op[t] = "health" /\ pc[t] = "returned" /\ ret[t] = "true" /\ written[t] = 1

C15_NoReconnectUnderCommand ==
  [][\A t \in Threads :
       ReconnectEntry(t) => \A u \in Callers : pc[u] # "cmd_pending"]_vars

C17_SshStrictTimeout ==
  chan.phase # "none" /\ chan.timedOut =>
    chan.settled = [kind |-> "TimeoutError",
                    message |-> <<"Command timeout: ", chan.command>>,
                    timeout |-> chan.timeout]

\* the timeout fired with output accumulated and the channel closed afterwards
C17_Witness ==
  /\ chan.phase = "closed" /\ chan.timedOut /\ chan.output # <<>> /\ chan.code = "0"
  /\ chan.settled.kind = "TimeoutError"

\* C18: when the telnet command timer fires before the prompt, the promise
\* resolves with the cleaned accumulated output if anything was accumulated
\* and is rejected with TimeoutError only if nothing was
C18_TelnetLenientTimeout ==
  (tcmd.phase = "done" /\ tcmd.timedOut) =>
    tcmd.settled = IF tcmd.output # <<>>
                   THEN [kind |-> "resolved",
                         value |-> CleanOutput(tcmd.output, tcmd.command)]
                   ELSE [kind |-> "TimeoutError",
                         message |-> <<"Command timeout: ", tcmd.command>>,
                         timeout |-> tcmd.timeout]

\* the timer fired after the echo and the first page had arrived
C18_Witness ==
  /\ tcmd.phase = "done" /\ tcmd.timedOut /\ tcmd.settled.kind = "resolved"
  /\ tcmd.settled.value = <<"line1">>

\* C19: however the answer is cut into chunks, every --More-- marker received
\* has been answered by one space, and a command completed by the prompt has
\* written exactly k spaces and resolves with the cleaned reference text
C19_PaginationDrained ==
  tcmd.phase # "none" =>
    /\ tcmd.spaces = CountMarkers(SubSeq(Script(tcmd.command, tcmd.markers), 1, tcmd.sent))
    /\ (tcmd.phase = "done" /\ ~tcmd.timedOut) =>
         /\ tcmd.spaces = tcmd.markers
         /\ tcmd.settled = [kind |-> "resolved",
                            value |-> CleanOutput(Reference(tcmd.command, tcmd.markers),
                                                  tcmd.command)]

\* a reply buffer that is a window-size subnegotiation
IsWindowSize(buf) ==
  /\ Len(buf) = 9 /\ buf[1] = IAC /\ buf[2] = SB /\ buf[3] = OPT_NAWS
  /\ buf[8] = IAC /\ buf[9] = SE

C21_DecodeYieldsAppBytes ==
  dec.phase = "decoded" => dec.cleaned = AppBytes(dec.stream)

\* what the cleaning is to keep of a device output: everything but the
\* --More-- markers with their erasing runs and the control characters other
\* than newline and tab
Kept(text) ==
  SelectSeq(RemoveBackspaces(RemoveMarkers(text)),
            LAMBDA tok : tok \notin {"CR", "BEL", "BS", "ANSI"})

\* C22: cleaning a completed accumulation removes the echoed command line, the
\* trailing prompt line, the --More-- remnants with their backspace runs and
\* the control characters other than newline and tab, and nothing else of the
\* device output (up to the surrounding whitespace, as in 'OK')
C22_CleanOutputKeepsBody ==
  cln.phase = "cleaned" => cln.cleaned = Trim(Kept(Flatten(cln.body)))

\* C23: the Learned Prompt of a telnet session, the raw token and the pattern
\* compiled from it, is absent before the first prompt detection and absent
\* again once disconnect() has run (by a caller or inside reconnect()), until
\* the next connection attempt
C23_LearnedPromptReset ==
  (engine = "telnet" /\ client = "null") =>
    (learnedPrompt = "" /\ promptPattern = "default")

\* C24: connect() on a session whose state is Connected returns successfully
\* and leaves the state, the client, the attempt counter, the Learned Prompt
\* and every timer as they were, and creates no socket
C24_ConnectIsNoOpWhenConnected ==
  [][\A t \in Threads :
       /\ (ConnectEntry(t) /\ state = CONNECTED)
            => (pc'[t] = "connect_ret" /\ UNCHANGED <<sessVars, loopVars, socksLeft>>)
       /\ (ConnectRet(t) /\ op[t] = "connect" /\ state = CONNECTED)
            => (pc'[t] = "returned" /\ ret'[t] = "ok"
                  /\ UNCHANGED <<sessVars, loopVars, socksLeft>>)]_vars

\* a second connect() found the session Connected and is about to return
C24_Witness ==
  \E t \in Callers :
    /\ pc[t] = "connect_ret" /\ op[t] = "connect" /\ made[t] = 0 /\ fail[t] = "none"
    /\ state = CONNECTED /\ IsConnected /\ keepaliveTimer /\ kaLive = 1
    /\ socksLeft = MaxSockets - 1

\* the connect() call of chain t is still going to do something by itself: it
\* sleeps a backoff, polls a connect in progress, runs postConnectSetup(), or
\* awaits an attempt that a timer or a live socket can still settle
ConnectAlive(t) ==
  \/ pc[t] \in {"conn_sleep", "conn_wait", "conn_setup"}
  \/ /\ pc[t] = "conn_attempt"
     /\ attemptTimer[t] \/ (sockCreator = t /\ client \in {"opening", "ready"})

\* C25: after an unexpected closure has scheduled a reconnect, and as long as
\* disconnect() has not been called since, a session that is not Connected
\* always has a retry to come: a reconnect timer is pending or a connect() is
\* still going on, so that it becomes Connected once attempts succeed
C25_NeverStopsRetrying ==
  (Quiet /\ reconnectTimer # "undefined" /\ state # CONNECTED)
    => (rtLive > 0 \/ \E t \in Threads : ConnectAlive(t))

\* C26: when the transport of a Connected session emits 'error' and then
\* 'close', the close leaves a reconnect scheduled as a plain close does: the
\* session is not left without a pending reconnect timer (or, at least, a
\* connect() in progress)
C26_ErrorThenCloseReconnects ==
  [][(SockClose /\ erroredUp)
       => (rtLive' > 0 \/ \E t \in Threads : pc'[t] \in ConnectPcs)]_vars

\* C27: whenever a connect() call returns normally the session is Connected:
\* isConnected() is true at that moment, for every maxRetries from 0 on and
\* every timing of the transport events
C27_ConnectResolvesConnected ==
  \A t \in Threads : pc[t] = "connect_ret" => IsConnected

\* C28: once disconnect() has run, a connect() retry loop that was in progress
\* (it had made an attempt, and disconnect() has set the client to null since)
\* opens no new connection: the session stays Disconnected without a socket
C28_DisconnectIsFinal ==
  [][\A t \in Threads :
       (LoopHead(t) /\ client = "null" /\ made[t] >= 1)
         => (client' = "null" /\ state' = DISCONNECTED)]_vars

\* C29: at most one connect() retry loop is between its first attempt and its
\* end (awaiting an attempt or sleeping a backoff) at any time
C29_OneRetryLoop ==
  Cardinality({t \in Threads : Retrying(t)}) <= 1

\* C30: a keepalive tick hands the keepalive command to executeCommand exactly
\* when the idle time exceeds one interval and the session is Connected, and a
\* keepalive command that succeeded refreshes the last-activity time
C30_KeepaliveWhenIdle ==
  [][/\ KeepaliveTick
          => ((pc'["ka"] = "exec_entry" /\ op'["ka"] = "keepalive")
                <=> (idle > 1 /\ IsConnected))
     /\ (ExecDone("ka") /\ op["ka"] = "keepalive" /\ val["ka"] \in Outputs)
          => idle' = 0]_vars

\* a keepalive sent after more than one idle interval succeeded and has
\* refreshed the last-activity time
C30_Witness ==
  /\ pc["ka"] = "returned" /\ op["ka"] = "keepalive" /\ ret["ka"] = "ka_ok"
  /\ written["ka"] = 1 /\ idle = 0 /\ IsConnected

\* C31: when the reconnect forced by the keepalive's staleness check has
\* failed after its attempts, the session is not left without a keepalive
\* timer, without a reconnect timer and without a connect() in progress
C31_ForcedReconnectSelfHeals ==
  (pc["kr"] = "returned" /\ op["kr"] = "reconnect" /\ ret["kr"] = "unhandled")
    => (kaLive > 0 \/ rtLive > 0 \/ \E t \in Threads : pc[t] \in ConnectPcs)

\* C32: telnet: no command of a caller is written to the socket while the
\* post-connect setup of the connection that owns the socket is still running
C32_NoCommandDuringSetup ==
  [][\A t \in Threads :
       (engine = "telnet" /\ ExecIssue(t) /\ written'[t] = written[t] + 1)
         => ~(sockCreator # "none" /\ pc[sockCreator] = "conn_setup")]_vars

\* The event loop runs every runnable chain, every armed timer fires and
\* every event the transport has in store is delivered: some step is taken
\* as long as one is possible
SpecLive == Init /\ [][Next]_vars /\ WF_vars(Next)

\* C33: every executeCommand call eventually settles, as a result or as an
\* error (as long as the sockets of the exploration have not run out)
C33_EveryCallSettles ==
  \A t \in Callers :
    (op[t] = "exec" /\ pc[t] # "returned") ~> (pc[t] = "returned" \/ socksLeft = 0)

\* the text holds a whole --More-- marker
ContainsMarker(text) == \E i \in 1..(Len(text) - 1) : text[i] = "--Mo" /\ text[i + 1] = "re--"

\* the prompt is the last thing on the last line of the text, escape
\* sequences and blanks aside
PromptEndsText(text) ==
  \E i \in 1..Len(text) :
    /\ text[i] = PromptToken
    /\ \A j \in (i + 1)..Len(text) : text[j] \in {"SP", "ANSI"}

\* C34: a data chunk completes the pending telnet command exactly when the
\* chunk holds no --More-- marker and the last line of the accumulated output
\* ends with the prompt; a prompt on an earlier line does not complete it
C34_CompletionOnPromptOnly ==
  [][(tcmd.phase = "pending" /\ Len(tcmd'.output) > Len(tcmd.output))
       => LET chunk == SubSeq(tcmd'.output, Len(tcmd.output) + 1, Len(tcmd'.output))
          IN (tcmd'.phase = "done")
               <=> (~ContainsMarker(chunk) /\ PromptEndsText(tcmd'.output))]_vars

\* a command completed by the prompt after a page marker and after a prompt
\* that was followed by more output
C34_Witness ==
  /\ tcmd.phase = "done" /\ ~tcmd.timedOut /\ tcmd.settled.kind = "resolved"
  /\ tcmd.spaces >= 1
  /\ \E i \in 1..(Len(tcmd.output) - 2) : tcmd.output[i] = PromptToken /\ tcmd.output[i + 1] = "LF"

\* how often a connection attempt wrote what to the socket
TimesWritten(what) == Cardinality({i \in 1..Len(login.wrote) : login.wrote[i] = what})

\* C35: during one telnet connection attempt the username is written at most
\* once and the password at most once, whatever the device sends; the
\* accumulated text is empty after each write, and nothing is written once
\* the CLI prompt was detected
C35_CredentialsSentOnce ==
  /\ [](login.phase # "none" => (TimesWritten("username") <= 1 /\ TimesWritten("password") <= 1))
  /\ [][(login.phase # "none" /\ login'.wrote # login.wrote)
          => (login'.initialData = <<>> /\ ~login.promptDetected)]_vars

\* the reply ends with a password prompt
ReplyAsksPassword(reply) == reply # <<>> /\ reply[Len(reply)] = "Password:"

\* the reply ends with a '#'
ReplyEndsInHash(reply) == reply # <<>> /\ reply[Len(reply)] \in {PromptToken, "x#"}

LengthCalls == {i \in 1..Len(setup.calls) : setup.calls[i] = "terminal length 0"}

\* C37: telnet: 'terminal length 0' is handed to the socket during the setup
\* exactly when the session is elevated at that point, after the enable step,
\* and the attempt resolves whatever becomes of it
C37_TerminalLengthWhenElevated ==
  /\ [](setup.pc = "done" => /\ (LengthCalls # {} <=> setup.inEnableMode)
                             /\ LengthCalls \subseteq {Len(setup.calls)}
                             /\ setup.attempt = "resolved")
  /\ [](setup.pc = "wait_length" => setup.inEnableMode)
  /\ [](setup.pc \in {"start", "sleep500", "wait_enable", "sleep200", "wait_password"}
          => LengthCalls = {})

\* the session was elevated with the enable password, terminal length 0 was
\* written after it and stayed unanswered
C37_Witness ==
  /\ setup.pc = "done" /\ setup.attempt = "resolved" /\ setup.inEnableMode
  /\ ~setup.atPrompt /\ setup.enablePassword = "enable-secret"
  /\ setup.wrote = <<"enable", "enable-secret", "terminal length 0">>
  /\ setup.output = <<>>

\* C38: when the bytes of the device arrive in two buffers, cut at any point,
\* the decoded application data are exactly the application bytes sent and
\* every negotiation triple sent is handed to handleIACNegotiation
C38_SplitLeaksNothing ==
  dec.phase = "reassembled"
    => (dec.cleaned = AppBytes(dec.stream) /\ dec.calls = Negotiations(dec.stream))

\* C39: executeCommandWithRetry runs the command at most maxAttempts times and
\* settles with the first result, or with a CommandExecutionError that carries
\* the command and the last error after exactly maxAttempts failed executions
C39_RetryOutcome ==
  /\ retry.phase # "none" => retry.executions <= retry.maxAttempts
  /\ retry.phase = "done"
       => \/ retry.settled.kind = "resolved"
          \/ /\ retry.settled.kind = "CommandExecutionError"
             /\ retry.settled.command = retry.command
             /\ retry.settled.details = retry.lastError
             /\ retry.executions = retry.maxAttempts

\* C40: in every reachable state of either engine at most one keepalive
\* interval is live and at most one reconnect timeout is pending, whatever the
\* sequence of connect, reconnect, disconnect and close events
C40_OneTimerOfEachKind == kaLive <= 1 /\ rtLive <= 1

\* a later connection of the session was closed by the transport: the
\* keepalive interval started for it and the reconnect timeout scheduled by the
\* close are the only timers
C40_Witness ==
  /\ kaLive = 1 /\ rtLive = 1 /\ keepaliveTimer /\ reconnectTimer = "pending"
  /\ state = RECONNECTING /\ client = "closed" /\ socksLeft <= MaxSockets - 2
  /\ \E t \in Callers : pc[t] = "returned" /\ op[t] = "reconnect" /\ ret[t] = "ok"

====
